---- MODULE Spec2Model ----
(***************************************************************************)
(* A model of the SQL context generator extension: the two schema loaders  *)
(* (DatabaseContextGenerator in contextGenerator.ts and DatabaseManager in *)
(* database.ts), the liveness probe testConnection, the reconstruction of  *)
(* foreign keys from flat catalog rows, and the markdown renderers.        *)
(*                                                                         *)
(* Strings whose characters matter (names, defaults, lookup keys, rendered *)
(* lines) are sequences of one-character strings.                          *)
(***************************************************************************)
EXTENDS Integers, Sequences, FiniteSets, TLC

VARIABLES
  calls,         \* call id -> the state of one loadSchema/fetchSchema/testConnection call
  files,         \* path -> whether a file exists at that path
  adapter,       \* [loader, provider]: the loader and engine of an introspection
  catalogTables, \* the tables and views of the database, in catalog order
  columnRows,    \* the rows of the column query, in the order reported
  pkRows,        \* the rows of the primary-key query, in the order reported
  fkRows,        \* the rows of the foreign-key query, in the order reported
  snapshot,      \* the schema the loader returned, or NoSnapshot
  clock,         \* the reading of the system clock
  documents,     \* the renderings of the snapshot so far: [now, lines]
  command,       \* the state of one run of the generate-context command
  outputFile,    \* the document file: "absent", "partial" or "written"
  shown,         \* the messages shown to the user, in order
  pragma,        \* [loader, name, issued]: the PRAGMA queries issued for one table
  env,           \* [stage, config, content, outcome]: one export and/or import of .env text
  secrets,       \* secret key -> the text the secret storage holds, or NoSecret
  cache,         \* secret key -> the config ConnectionManager caches, or NoConfig
  tasks,         \* task id -> the state of one operation on ConnectionManager
  started,       \* the number of operations started
  fkJoin,        \* [stage, declared, rows, fkMap]: one run of the foreign-key query
  listing        \* [stage, provider, catalog, rows, tables]: one run of the query that lists the tables

callVars == <<calls, files>>

schemaVars == <<adapter, catalogTables, columnRows, pkRows, fkRows, snapshot>>

renderVars == <<clock, documents>>

commandVars == <<command, outputFile, shown>>

managerVars == <<secrets, cache, tasks, started>>

\* The state of the .env conversions, of ConnectionManager and of the catalog
\* queries looked at on their own.
extVars == <<env, managerVars, fkJoin, listing>>

coreVars == <<callVars, schemaVars, renderVars, commandVars, pragma>>

notEnvVars == <<coreVars, fkJoin, listing>>

\* What the steps of a call leave alone, and what the catalog steps leave alone.
notCallVars == <<schemaVars, renderVars, commandVars, pragma, extVars>>

notSchemaVars == <<callVars, renderVars, commandVars, pragma, extVars>>

vars == <<calls, files, adapter, catalogTables, columnRows, pkRows, fkRows, snapshot,
          clock, documents, command, outputFile, shown, pragma, env,
          secrets, cache, tasks, started, fkJoin, listing>>

(***************************************************************************)
(* Connection life cycle of one call                                       *)
(***************************************************************************)

\* The concurrent calls the extension host may have in flight.
Calls == {"call1", "call2"}

\* The sqlite database paths of the configurations.
Paths == {"db1", "db2"}

\* Most tables the sqlite master catalog reports to one call.
MaxTables == 1

\* loadSchema: DatabaseContextGenerator; fetchSchema: DatabaseManager.
Ops == {"loadSchema", "fetchSchema", "testConnection"}

\* The connection descriptors handed to the core (ConnectionConfig /
\* ConnectionCredentials): only the fields the adapters branch on.
Configs ==
  [provider : {"sqlite"}, host : {""}, database : {""}, filePath : Paths \cup {""}]
    \cup [provider : {"postgres", "mysql"}, host : {"", "h"}, database : {"d"}, filePath : {""}]
    \cup [provider : {"oracle"}, host : {"h"}, database : {"d"}, filePath : {""}]

IdleCall ==
  [pc |-> "idle", op |-> "none",
   config |-> [provider |-> "none", host |-> "", database |-> "", filePath |-> ""],
   handle |-> "none", mode |-> "none", foundFile |-> "unknown", createdFile |-> FALSE,
   queries |-> <<>>, todo |-> <<>>, pending |-> 0, error |-> "none"]

\* A probe that opens the database the way the loaders do.
SqliteOpenModeDefault(op) == "OPEN_READWRITE|OPEN_CREATE"

\* contextGenerator.ts:273 passes no mode (the driver's default, read-write
\* and create); contextGenerator.ts:385 passes OPEN_READONLY; database.ts
\* passes no mode.
SqliteOpenMode(op) ==
  IF op = "testConnection" THEN "OPEN_READONLY" ELSE "OPEN_READWRITE|OPEN_CREATE"

\* The catalog queries a networked adapter issues, in order.
NetworkQueries(op, provider) ==
  CASE op = "testConnection" -> <<"SELECT 1">>
    [] op = "loadSchema" -> <<"tables", "columns", "foreignKeys">>
    [] op = "fetchSchema" -> <<"columns", "primaryKeys">>

\* The first query on an open sqlite database.
SqliteFirstQueries(op) ==
  IF op = "testConnection" THEN <<"SELECT 1">> ELSE <<"sqlite_master">>

\* The per-table PRAGMA queries of the sqlite loaders.
SqliteTableQueries(op) ==
  IF op = "loadSchema" THEN <<"table_info", "foreign_key_list">> ELSE <<"table_info">>

RECURSIVE Repeat(_, _)
Repeat(s, n) == IF n = 0 THEN <<>> ELSE s \o Repeat(s, n - 1)

\* fetchPostgresSchema issues its two queries through Promise.all.
IssuesConcurrently(op, provider) == op = "fetchSchema" /\ provider = "postgres"

Found(exists) == IF exists THEN "found" ELSE "missing"

\* A failure path that blanks the database name of the descriptor.
FailBlankingDescriptor(call, err) ==
  [call EXCEPT !.pc = "done", !.error = err, !.config.database = "-"]

Fail(call, err) == [call EXCEPT !.pc = "done", !.error = err]

\* A dispatch whose default case falls through to the networked adapter.
BeginWithoutDefault(op, cfg) ==
  LET c0 == [IdleCall EXCEPT !.op = op, !.config = cfg]
      hostMissing == op = "fetchSchema" /\ (cfg.host = "" \/ cfg.database = "")
  IN CASE cfg.provider = "mysql" ->
            IF hostMissing THEN Fail(c0, "MissingHost")
            ELSE [c0 EXCEPT !.pc = "connect"]
       [] cfg.provider = "sqlite" ->
            IF cfg.filePath = "" THEN Fail(c0, "MissingPath")
            ELSE IF op = "fetchSchema" THEN [c0 EXCEPT !.pc = "access"]
            ELSE [c0 EXCEPT !.pc = "connect"]
       [] OTHER ->
            IF hostMissing THEN Fail(c0, "MissingHost")
            ELSE [c0 EXCEPT !.pc = "connect", !.handle = "created"]

\* The synchronous prefix of a call, up to its first await.
Begin(op, cfg) ==
  LET c0 == [IdleCall EXCEPT !.op = op, !.config = cfg]
      hostMissing == op = "fetchSchema" /\ (cfg.host = "" \/ cfg.database = "")
  IN CASE cfg.provider = "postgres" ->
            IF hostMissing THEN Fail(c0, "MissingHost")
            ELSE [c0 EXCEPT !.pc = "connect", !.handle = "created"]
       [] cfg.provider = "mysql" ->
            IF hostMissing THEN Fail(c0, "MissingHost")
            ELSE [c0 EXCEPT !.pc = "connect"]
       [] cfg.provider = "sqlite" ->
            IF cfg.filePath = "" THEN Fail(c0, "MissingPath")
            ELSE IF op = "fetchSchema" THEN [c0 EXCEPT !.pc = "access"]
            ELSE [c0 EXCEPT !.pc = "connect"]
       [] OTHER -> Fail(c0, "Unsupported")

Start(c) ==
  /\ calls[c].pc = "idle"
  /\ \E op \in Ops, cfg \in Configs : calls' = [calls EXCEPT ![c] = Begin(op, cfg)]
  /\ UNCHANGED <<files, notCallVars>>

\* database.ts: await fs.access(resolvedPath) before opening.
Access(c) ==
  LET call == calls[c] IN
  /\ call.pc = "access"
  /\ calls' = [calls EXCEPT ![c] =
       IF files[call.config.filePath]
       THEN [call EXCEPT !.pc = "connect", !.foundFile = "found"]
       ELSE [Fail(call, "NotFound") EXCEPT !.foundFile = "missing"]]
  /\ UNCHANGED <<files, notCallVars>>

\* client.connect() / mysql.createConnection() resolves.
ConnectOk(c) ==
  LET call == calls[c] IN
  /\ call.pc = "connect"
  /\ call.config.provider \in {"postgres", "mysql"}
  /\ calls' = [calls EXCEPT ![c] =
       [call EXCEPT !.pc = "run", !.handle = "open",
                    !.todo = NetworkQueries(call.op, call.config.provider)]]
  /\ UNCHANGED <<files, notCallVars>>

\* client.connect() / mysql.createConnection() rejects: the await is outside
\* the try, so no finally block runs.  A pg client whose connect failed holds
\* either no socket or a socket the failure left open; mysql.createConnection
\* hands no connection back.
ConnectFail(c) ==
  LET call == calls[c] IN
  /\ call.pc = "connect"
  /\ call.config.provider \in {"postgres", "mysql"}
  /\ \E h \in (IF call.config.provider = "postgres" THEN {"created", "open"} ELSE {"none"}) :
       calls' = [calls EXCEPT ![c] = [Fail(call, "ConnectError") EXCEPT !.handle = h]]
  /\ UNCHANGED <<files, notCallVars>>

\* open({ filename, driver, mode }) of the sqlite driver resolves.  Without
\* OPEN_CREATE a missing file cannot be opened; with it the file is created.
OpenOk(c) ==
  LET call == calls[c]
      p == call.config.filePath
      m == SqliteOpenMode(call.op)
  IN
  /\ call.pc = "connect"
  /\ call.config.provider = "sqlite"
  /\ files[p] \/ m = "OPEN_READWRITE|OPEN_CREATE"
  /\ calls' = [calls EXCEPT ![c] =
       [call EXCEPT !.pc = "run", !.handle = "open", !.mode = m,
                    !.foundFile = IF call.op = "fetchSchema" THEN @ ELSE Found(files[p]),
                    !.createdFile = ~files[p],
                    !.todo = SqliteFirstQueries(call.op)]]
  /\ files' = [files EXCEPT ![p] = TRUE]
  /\ UNCHANGED notCallVars

\* open() rejects (missing file in read-only mode, unreadable file, ...):
\* no database handle is returned and nothing is created.
OpenFail(c) ==
  LET call == calls[c]
      p == call.config.filePath
  IN
  /\ call.pc = "connect"
  /\ call.config.provider = "sqlite"
  /\ calls' = [calls EXCEPT ![c] =
       [Fail(call, "ConnectError") EXCEPT
          !.mode = SqliteOpenMode(call.op),
          !.foundFile = IF call.op = "fetchSchema" THEN @ ELSE Found(files[p])]]
  /\ UNCHANGED <<files, notCallVars>>

\* The next awaited query (or, under Promise.all, all of them) is issued.
Issue(c) ==
  LET call == calls[c]
      n == IF IssuesConcurrently(call.op, call.config.provider) THEN Len(call.todo) ELSE 1
  IN
  /\ call.pc = "run"
  /\ call.todo # <<>>
  /\ calls' = [calls EXCEPT ![c] =
       [call EXCEPT !.pc = "await",
                    !.queries = @ \o SubSeq(call.todo, 1, n),
                    !.todo = SubSeq(call.todo, n + 1, Len(call.todo)),
                    !.pending = n]]
  /\ UNCHANGED <<files, notCallVars>>

\* A query in flight resolves.  The sqlite_master result decides how many
\* per-table PRAGMA queries follow.
QueryOk(c) ==
  LET call == calls[c]
      last == call.queries[Len(call.queries)]
  IN
  /\ call.pc = "await"
  /\ call.pending > 0
  /\ \E n \in 0..MaxTables :
       calls' = [calls EXCEPT ![c] =
         [call EXCEPT !.pending = @ - 1,
                      !.pc = IF call.pending = 1 THEN "run" ELSE "await",
                      !.todo = IF last = "sqlite_master"
                               THEN Repeat(SqliteTableQueries(call.op), n)
                               ELSE @]]
  /\ UNCHANGED <<files, notCallVars>>

\* A query in flight rejects: control passes to the finally block.
QueryFail(c) ==
  LET call == calls[c] IN
  /\ call.pc = "await"
  /\ call.pending > 0
  /\ calls' = [calls EXCEPT ![c] =
       [call EXCEPT !.pending = @ - 1, !.pc = "finally", !.error = "QueryError"]]
  /\ UNCHANGED <<files, notCallVars>>

\* All queries are done: the try block returns and the finally block runs.
Return(c) ==
  LET call == calls[c] IN
  /\ call.pc = "run"
  /\ call.todo = <<>>
  /\ calls' = [calls EXCEPT ![c] = [call EXCEPT !.pc = "finally"]]
  /\ UNCHANGED <<files, notCallVars>>

\* A finally block that ends a client kept in a field shared by all calls.
FinallySharedClient(c) ==
  LET call == calls[c] IN
  /\ call.pc = "finally"
  /\ calls' = [d \in Calls |->
       IF d = c THEN [call EXCEPT !.pc = "done", !.handle = "closed"]
       ELSE IF calls[d].handle = "open" THEN [calls[d] EXCEPT !.handle = "closed"]
       ELSE calls[d]]
  /\ UNCHANGED <<files, notCallVars>>

\* finally { await client.end() / connection.end() / db.close() }
Finally(c) ==
  LET call == calls[c] IN
  /\ call.pc = "finally"
  /\ calls' = [calls EXCEPT ![c] = [call EXCEPT !.pc = "done", !.handle = "closed"]]
  /\ UNCHANGED <<files, notCallVars>>

\* The value a failed call rejects with.  The core constructs a plain Error
\* for the failures it detects itself; a rejection of connect or of a query
\* passes through the try/finally blocks as the driver raised it, since no
\* adapter has a catch clause around them.
Thrown(call) ==
  CASE call.error \in {"Unsupported", "MissingHost", "MissingPath", "NotFound"} ->
         [class |-> "Error", message |-> call.error]
    [] call.error \in {"ConnectError", "QueryError"} ->
         [class |-> "DriverError", message |-> "driver message"]
    [] OTHER -> [class |-> "none", message |-> ""]

(***************************************************************************)
(* Catalog rows and schema assembly                                        *)
(***************************************************************************)

\* Most catalog rows (column, primary-key and foreign-key rows together) a
\* database reports to one introspection.
MaxRows == 3

\* JavaScript null / undefined, distinct from every string.
Null == <<"NULL">>

NoSnapshot == [provider |-> "none"]

sA == <<"a">>
sAB == <<"a", ".", "b">>
tBC == <<"b", ".", "c">>
tC == <<"c">>
c1 == <<"c", "1">>
c2 == <<"c", "2">>
r1 == <<"r", "1">>
r2 == <<"r", "2">>
fkA == <<"f", "k", "_", "a">>
fkB == <<"f", "k", "_", "b">>
tInt == <<"i", "n", "t">>
tText == <<"t", "e", "x", "t">>
sCascade == <<"C", "A", "S", "C", "A", "D", "E">>
sNoAction == <<"N", "O", " ", "A", "C", "T", "I", "O", "N">>
dbName == <<"d">>

Adapters == [loader : {"loadSchema", "fetchSchema"}, provider : {"postgres", "mysql", "sqlite"}]

\* The relations a database of each engine may hold, in the engine's catalog
\* order (ORDER BY table_schema, table_name).  Only postgres rows carry a
\* schema.
Relations(provider) ==
  IF provider = "postgres"
  THEN << [table_schema |-> sA, table_name |-> tBC, table_type |-> "BASE TABLE"],
          [table_schema |-> sA, table_name |-> tC, table_type |-> "VIEW"],
          [table_schema |-> sAB, table_name |-> tC, table_type |-> "BASE TABLE"] >>
  ELSE << [table_schema |-> Null, table_name |-> tBC, table_type |-> "BASE TABLE"],
          [table_schema |-> Null, table_name |-> tC, table_type |-> "VIEW"] >>

\* The foreign-key constraints a table may declare: two named ones and two
\* unnamed ones.  The id is the constraint's identity in the engine (for
\* sqlite, the id column of PRAGMA foreign_key_list).
ConstraintIds == 1..4

ConstraintName(provider, id) ==
  IF provider = "sqlite" THEN Null
  ELSE CASE id = 1 -> fkA [] id = 2 -> fkB [] OTHER -> Null

\* Position of a constraint in ORDER BY constraint_name (NULLs last); sqlite
\* lists by id.
ConstraintRank(provider, id) ==
  IF provider = "sqlite" THEN id ELSE IF id >= 3 THEN 3 ELSE id

ColumnRow(rel, col) ==
  [table_schema |-> rel.table_schema, table_name |-> rel.table_name, column_name |-> col,
   data_type |-> IF col = c1 THEN tInt ELSE tText,
   is_nullable |-> IF col = c1 THEN "NO" ELSE "YES",
   column_default |-> IF col = c1 THEN Null ELSE <<"0">>]

PkRow(rel, col) ==
  [table_schema |-> rel.table_schema, table_name |-> rel.table_name, column_name |-> col]

FkRow(provider, rel, id, col) ==
  [constraint_id |-> id,
   constraint_name |-> ConstraintName(provider, id),
   table_schema |-> rel.table_schema, table_name |-> rel.table_name,
   column_name |-> col,
   foreign_table_schema |-> IF provider = "postgres" THEN sA ELSE Null,
   foreign_table_name |-> tC,
   foreign_column_name |-> IF col = c1 THEN r1 ELSE r2,
   update_rule |-> IF id = 1 THEN sNoAction ELSE Null,
   delete_rule |-> IF id = 1 THEN sCascade ELSE Null]

SameTable(row, rel) ==
  row.table_schema = rel.table_schema /\ row.table_name = rel.table_name

RelationIndex(provider, row) ==
  CHOOSE i \in DOMAIN Relations(provider) : SameTable(row, Relations(provider)[i])

\* ---- JavaScript Map: insertion-ordered, set() of a present key keeps its place

MapHas(m, k) == \E i \in DOMAIN m : m[i].key = k

MapGet(m, k) == m[CHOOSE i \in DOMAIN m : m[i].key = k].value

MapSet(m, k, v) ==
  IF MapHas(m, k)
  THEN [i \in DOMAIN m |-> IF m[i].key = k THEN [key |-> k, value |-> v] ELSE m[i]]
  ELSE Append(m, [key |-> k, value |-> v])

MapGetOr(m, k, default) == IF MapHas(m, k) THEN MapGet(m, k) ELSE default

MapValues(m) == [i \in DOMAIN m |-> m[i].value]

\* ---- lookup keys

\* `${row.table_schema}.${row.table_name}` for postgres, TABLE_NAME for mysql.
TableKey(provider, schema, name) ==
  IF provider = "postgres" THEN schema \o <<".">> \o name ELSE name

\* `${table_schema}.${table_name}.${column_name}` / `${TABLE_NAME}.${COLUMN_NAME}`
PkKey(provider, row) ==
  TableKey(provider, row.table_schema, row.table_name) \o <<".">> \o row.column_name

\* ---- DatabaseContextGenerator (contextGenerator.ts)

TableColumn(row) ==
  [name |-> row.column_name, dataType |-> row.data_type,
   isNullable |-> (row.is_nullable = "YES"), defaultValue |-> row.column_default]

RECURSIVE ColumnsMap(_, _, _)
ColumnsMap(provider, rows, m) ==
  IF rows = <<>> THEN m
  ELSE LET row == Head(rows)
           key == TableKey(provider, row.table_schema, row.table_name)
           existing == MapGetOr(m, key, <<>>)
       IN ColumnsMap(provider, Tail(rows), MapSet(m, key, Append(existing, TableColumn(row))))

NewForeignKey(row) ==
  [name |-> row.constraint_name, columns |-> <<>>,
   referencedTable |-> [schema |-> row.foreign_table_schema, name |-> row.foreign_table_name],
   referencedColumns |-> <<>>,
   onUpdate |-> row.update_rule, onDelete |-> row.delete_rule]

\* A grouping that records the local column of a row but not its target.
PushColumnsLocalOnly(fk, row) ==
  [fk EXCEPT !.columns = Append(@, row.column_name),
             !.referencedColumns = IF @ = <<>> THEN <<row.foreign_column_name>> ELSE @]

\* fk.columns.push(...); fk.referencedColumns.push(...)
PushColumns(fk, row) ==
  [fk EXCEPT !.columns = Append(@, row.column_name),
             !.referencedColumns = Append(@, row.foreign_column_name)]

\* fks.find((x) => x.name === row.constraint_name): the index, or 0.
FindByName(fks, name) ==
  IF \E i \in DOMAIN fks : fks[i].name = name
  THEN CHOOSE i \in DOMAIN fks : fks[i].name = name /\ \A j \in 1..(i - 1) : fks[j].name # name
  ELSE 0

RECURSIVE FkMap(_, _, _)
FkMap(provider, rows, m) ==
  IF rows = <<>> THEN m
  ELSE LET row == Head(rows)
           tableKey == TableKey(provider, row.table_schema, row.table_name)
           fks == MapGetOr(m, tableKey, <<>>)
           i == FindByName(fks, row.constraint_name)
           fks2 == IF i = 0 THEN Append(fks, PushColumns(NewForeignKey(row), row))
                   ELSE [fks EXCEPT ![i] = PushColumns(@, row)]
       IN FkMap(provider, Tail(rows), MapSet(m, tableKey, fks2))

\* The rows of the tables query: every catalog relation outside the system
\* schemas.
TableRows == catalogTables

LoadNetworkSchema(provider) ==
  LET columnsMap == ColumnsMap(provider, columnRows, <<>>)
      fkMap == FkMap(provider, fkRows, <<>>)
      Table(row) ==
        LET key == TableKey(provider, row.table_schema, row.table_name)
        IN [name |-> row.table_name, schema |-> row.table_schema,
            type |-> IF row.table_type = "VIEW" THEN "view" ELSE "table",
            columns |-> MapGetOr(columnsMap, key, <<>>),
            foreignKeys |-> MapGetOr(fkMap, key, <<>>)]
  IN [provider |-> provider, database |-> dbName,
      tables |-> [i \in DOMAIN TableRows |-> Table(TableRows[i])]]

\* The rows PRAGMA table_info / foreign_key_list return for a table name.
PragmaRows(rows, name) ==
  LET OfTable(row) == row.table_name = name IN SelectSeq(rows, OfTable)

RECURSIVE FkGrouped(_, _)
FkGrouped(rows, m) ==
  IF rows = <<>> THEN m
  ELSE LET row == Head(rows)
           fk == MapGetOr(m, row.constraint_id,
                          [NewForeignKey(row) EXCEPT !.name = Null, !.referencedTable.schema = Null])
       IN FkGrouped(Tail(rows), MapSet(m, row.constraint_id, PushColumns(fk, row)))

LoadSqliteSchema ==
  LET Table(row) ==
        LET columns == PragmaRows(columnRows, row.table_name)
            fks == PragmaRows(fkRows, row.table_name)
        IN [name |-> row.table_name, schema |-> Null,
            type |-> IF row.table_type = "VIEW" THEN "view" ELSE "table",
            columns |-> [i \in DOMAIN columns |-> TableColumn(columns[i])],
            foreignKeys |-> MapValues(FkGrouped(fks, <<>>))]
  IN [provider |-> "sqlite", database |-> dbName,
      tables |-> [i \in DOMAIN TableRows |-> Table(TableRows[i])]]

LoadSchema(provider) ==
  IF provider = "sqlite" THEN LoadSqliteSchema ELSE LoadNetworkSchema(provider)

\* ---- DatabaseManager (database.ts)

ColumnSchema(row, isPk) ==
  [name |-> row.column_name, dataType |-> row.data_type,
   nullable |-> (row.is_nullable = "YES"), defaultValue |-> row.column_default,
   isPrimaryKey |-> isPk]

PkSet(provider) == {PkKey(provider, pkRows[i]) : i \in DOMAIN pkRows}

RECURSIVE TablesMap(_, _, _)
TablesMap(provider, rows, m) ==
  IF rows = <<>> THEN m
  ELSE LET row == Head(rows)
           key == TableKey(provider, row.table_schema, row.table_name)
           table == MapGetOr(m, key, [name |-> row.table_name, schema |-> row.table_schema,
                                      columns |-> <<>>])
           column == ColumnSchema(row, PkKey(provider, row) \in PkSet(provider))
       IN TablesMap(provider, Tail(rows),
                    MapSet(m, key, [table EXCEPT !.columns = Append(@, column)]))

FetchNetworkSchema(provider) ==
  [provider |-> provider, tables |-> MapValues(TablesMap(provider, columnRows, <<>>))]

\* sqlite_master WHERE type = 'table'
MasterTables ==
  LET IsTable(row) == row.table_type = "BASE TABLE" IN SelectSeq(catalogTables, IsTable)

FetchSqliteSchema ==
  LET Table(row) ==
        LET columns == PragmaRows(columnRows, row.table_name)
            IsPk(col) == \E i \in DOMAIN pkRows :
                            pkRows[i].table_name = col.table_name
                              /\ pkRows[i].column_name = col.column_name
        IN [name |-> row.table_name, schema |-> Null,
            columns |-> [i \in DOMAIN columns |-> ColumnSchema(columns[i], IsPk(columns[i]))]]
  IN [provider |-> "sqlite", tables |-> [i \in DOMAIN MasterTables |-> Table(MasterTables[i])]]

FetchSchema(provider) ==
  IF provider = "sqlite" THEN FetchSqliteSchema ELSE FetchNetworkSchema(provider)

\* ---- the database reports rows; the loader assembles the snapshot

Sublists(seq) ==
  {SelectSeq(seq, LAMBDA x : x \in S) : S \in SUBSET {seq[i] : i \in DOMAIN seq}}

RowCount == Len(columnRows) + Len(pkRows) + Len(fkRows)

Last(seq) == seq[Len(seq)]

\* The column query orders by table, then ordinal position.
ReportColumn ==
  /\ snapshot = NoSnapshot
  /\ RowCount < MaxRows
  /\ \E i \in DOMAIN catalogTables, col \in {c1, c2} :
       LET row == ColumnRow(catalogTables[i], col) IN
       /\ columnRows # <<>> =>
            RelationIndex(adapter.provider, Last(columnRows))
              <= RelationIndex(adapter.provider, row)
       /\ columnRows' = Append(columnRows, row)
  /\ UNCHANGED <<adapter, catalogTables, pkRows, fkRows, snapshot, notSchemaVars>>

\* The primary-key query of DatabaseManager has no ORDER BY.  Only base
\* tables declare constraints.
ReportPrimaryKey ==
  /\ snapshot = NoSnapshot
  /\ RowCount < MaxRows
  /\ adapter.loader = "fetchSchema"
  /\ \E i \in DOMAIN catalogTables, col \in {c1, c2} :
       /\ catalogTables[i].table_type = "BASE TABLE"
       /\ pkRows' = Append(pkRows, PkRow(catalogTables[i], col))
  /\ UNCHANGED <<adapter, catalogTables, columnRows, fkRows, snapshot, notSchemaVars>>

\* The foreign-key query orders by table, constraint name, ordinal position.
ReportForeignKey ==
  /\ snapshot = NoSnapshot
  /\ RowCount < MaxRows
  /\ adapter.loader = "loadSchema"
  /\ \E i \in DOMAIN catalogTables, id \in ConstraintIds, col \in {c1, c2} :
       LET p == adapter.provider
           row == FkRow(p, catalogTables[i], id, col)
       IN
       /\ catalogTables[i].table_type = "BASE TABLE"
       /\ fkRows # <<>> =>
            LET last == Last(fkRows) IN
            \/ RelationIndex(p, last) < RelationIndex(p, row)
            \/ /\ RelationIndex(p, last) = RelationIndex(p, row)
               /\ ConstraintRank(p, last.constraint_id) <= ConstraintRank(p, id)
       /\ fkRows' = Append(fkRows, row)
  /\ UNCHANGED <<adapter, catalogTables, columnRows, pkRows, snapshot, notSchemaVars>>

Load ==
  /\ snapshot = NoSnapshot
  /\ snapshot' = IF adapter.loader = "loadSchema" THEN LoadSchema(adapter.provider)
                 ELSE FetchSchema(adapter.provider)
  /\ UNCHANGED <<adapter, catalogTables, columnRows, pkRows, fkRows, notSchemaVars>>

SchemaIdle ==
  /\ adapter = [loader |-> "none", provider |-> "none"]
  /\ catalogTables = <<>>
  /\ columnRows = <<>>
  /\ pkRows = <<>>
  /\ fkRows = <<>>
  /\ snapshot = NoSnapshot

SchemaInit ==
  /\ adapter \in Adapters
  /\ catalogTables \in Sublists(Relations(adapter.provider))
  /\ columnRows = <<>>
  /\ pkRows = <<>>
  /\ fkRows = <<>>
  /\ snapshot = NoSnapshot

SchemaNext ==
  \/ ReportColumn
  \/ ReportPrimaryKey
  \/ ReportForeignKey
  \/ Load

(***************************************************************************)
(* Rendering: renderMarkdown (contextGenerator.ts) and buildMarkdownContext*)
(* (markdown.ts).  A document is a sequence of lines; a line is a sequence *)
(* of characters, with fixed text kept as one token.                       *)
(***************************************************************************)

\* Most columns of a rendered table, most renderings of one snapshot, and
\* the latest reading of the clock.
MaxColumns == 2

MaxRenders == 3

MaxClock == 1

sId == <<"i", "d">>
sEmail == <<"e", "m", "a", "i", "l">>
sUsers == <<"u", "s", "e", "r", "s">>
sPublic == <<"p", "u", "b", "l", "i", "c">>
sAccounts == <<"a", "c", "c", "o", "u", "n", "t", "s">>
sAuthorId == <<"a", "u", "t", "h", "o", "r", "_", "i", "d">>
sPipe == <<"|">>
sAPipeB == <<"a", "|", "b">>
sBackslash == <<"\\">>
sBackslashPipe == <<"\\", "|">>
sEndsInBackslash == <<"a", "\\">>

\* JavaScript truthiness of an optional string.
Truthy(s) == s # Null /\ s # <<>>

\* An interpolation without the fallback to the empty string.
OrEmptyDropped(s) == s

\* value ?? ''
OrEmpty(s) == IF s = Null THEN <<>> ELSE s

\* value.replace(/\|/g, '\\|')
RECURSIVE ReplacePipes(_)
ReplacePipes(s) ==
  IF s = <<>> THEN <<>>
  ELSE (IF Head(s) = "|" THEN <<"\\", "|">> ELSE <<Head(s)>>) \o ReplacePipes(Tail(s))

\* contextGenerator.ts escapeMarkdown(value: string)
EscapeMarkdown(value) == IF ~Truthy(value) THEN <<>> ELSE ReplacePipes(value)

\* markdown.ts escapeMarkdown(value: string | null | undefined)
EscapeMarkdownOrNull(value) == IF value = Null THEN <<>> ELSE ReplacePipes(value)

\* `| ${a} | ${b} | ... |`
RECURSIVE Cells(_)
Cells(cells) ==
  IF cells = <<>> THEN <<"|">>
  ELSE <<"|", " ">> \o Head(cells) \o <<" ">> \o Cells(Tail(cells))

\* strings.join(', ')
RECURSIVE JoinComma(_)
JoinComma(strings) ==
  IF strings = <<>> THEN <<>>
  ELSE IF Len(strings) = 1 THEN Head(strings)
  ELSE Head(strings) \o <<",", " ">> \o JoinComma(Tail(strings))

RECURSIVE Flatten(_)
Flatten(seqs) == IF seqs = <<>> THEN <<>> ELSE Head(seqs) \o Flatten(Tail(seqs))

\* new Date().toISOString() at clock reading t
IsoString(t) == "2026-11-02T00:00:0" \o ToString(t) \o ".000Z"

\* ---- renderMarkdown (contextGenerator.ts)

\* A header block that stamps the time on the title line as well.
HeaderLinesStampedTwice(schema, nowIso) ==
  << <<"# Database Context ", nowIso>>, <<>>, <<"- Provider: **", schema.provider, "**">> >>
    \o (IF Truthy(schema.database)
        THEN << <<"- Database: **">> \o schema.database \o <<"**">> >> ELSE <<>>)
    \o << <<"- Generated: ", nowIso>>, <<>> >>

HeaderLines(schema, nowIso) ==
  << <<"# Database Context">>, <<>>, <<"- Provider: **", schema.provider, "**">> >>
    \o (IF Truthy(schema.database)
        THEN << <<"- Database: **">> \o schema.database \o <<"**">> >> ELSE <<>>)
    \o << <<"- Generated: ", nowIso>>, <<>> >>

ColumnLine(column) ==
  Cells(<< column.name, column.dataType,
           IF column.isNullable THEN <<"Y", "E", "S">> ELSE <<"N", "O">>,
           EscapeMarkdown(OrEmpty(column.defaultValue)) >>)

RelationLine(fk) ==
  LET cols == JoinComma(fk.columns)
      refCols == JoinComma(fk.referencedColumns)
      refTable == IF Truthy(fk.referencedTable.schema)
                  THEN fk.referencedTable.schema \o <<".">> \o fk.referencedTable.name
                  ELSE fk.referencedTable.name
      ref == refTable \o <<" ", "(">> \o refCols \o <<")">>
  IN Cells(<<cols, ref, OrEmpty(fk.onUpdate), OrEmpty(fk.onDelete)>>)

TableLines(table) ==
  LET qualifiedName == IF Truthy(table.schema) THEN table.schema \o <<".">> \o table.name
                       ELSE table.name
      \* the grave accents around the type are written as apostrophes
      head == << <<"## ">> \o qualifiedName, <<>>, <<"Type: '", table.type, "'">>, <<>> >>
      fks == table.foreignKeys
  IN IF Len(table.columns) = 0
     THEN head \o << <<"_No columns discovered._">>, <<>> >>
     ELSE head
            \o << <<"| Column | Type | Nullable | Default |">>,
                  <<"| ------ | ---- | -------- | ------- |">> >>
            \o [k \in DOMAIN table.columns |-> ColumnLine(table.columns[k])]
            \o << <<>> >>
            \o (IF Len(fks) > 0
                THEN << <<"Relations:">>, <<>>,
                        <<"| Columns | References | On Update | On Delete |">>,
                        <<"| ------- | ---------- | --------- | --------- |">> >>
                       \o [k \in DOMAIN fks |-> RelationLine(fks[k])]
                       \o << <<>> >>
                ELSE <<>>)

RenderMarkdown(schema, nowIso) ==
  HeaderLines(schema, nowIso)
    \o Flatten([i \in DOMAIN schema.tables |-> TableLines(schema.tables[i])])

\* ---- buildMarkdownContext (markdown.ts)

\* The credentials the schema was fetched with.
Credentials(provider) ==
  IF provider = "sqlite"
  THEN [type |-> "sqlite", filePath |-> "db1", host |-> "", port |-> "", database |-> "",
        schema |-> "", ssl |-> "undefined"]
  ELSE [type |-> provider, filePath |-> "", host |-> "h", port |-> "5432", database |-> "d",
        schema |-> "", ssl |-> "undefined"]

FormatTableHeader(table) ==
  <<"### ">> \o (IF Truthy(table.schema) THEN table.schema \o <<".">> ELSE <<>>) \o table.name

FormatColumnRow(column) ==
  Cells(<< EscapeMarkdownOrNull(column.name), EscapeMarkdownOrNull(column.dataType),
           IF column.nullable THEN <<"Y", "e", "s">> ELSE <<"N", "o">>,
           IF column.defaultValue = Null THEN <<>> ELSE EscapeMarkdownOrNull(column.defaultValue),
           IF column.isPrimaryKey THEN <<"Y", "e", "s">> ELSE <<>> >>)

ConnectionLines(credentials) ==
  << <<"# Database Context">>, <<>>, <<"## Connection">>, <<>>,
     <<"- Type: ", credentials.type>> >>
    \o (IF credentials.type = "sqlite"
        THEN << <<"- File: ", credentials.filePath>> >>
        ELSE << <<"- Host: ", credentials.host>>, <<"- Port: ", credentials.port>>,
                <<"- Database: ", credentials.database>> >>
               \o (IF credentials.schema # ""
                   THEN << <<"- Schema: ", credentials.schema>> >> ELSE <<>>)
               \o (IF credentials.ssl # "undefined"
                   THEN << <<"- SSL: ", IF credentials.ssl = "true" THEN "enabled" ELSE "disabled">> >>
                   ELSE <<>>))
    \o << <<>>, <<"## Tables">>, <<>> >>

SchemaTableLines(table) ==
  << FormatTableHeader(table), <<>>,
     <<"| Column | Type | Nullable | Default | Primary Key |">>,
     <<"| --- | --- | --- | --- | --- |">> >>
    \o [k \in DOMAIN table.columns |-> FormatColumnRow(table.columns[k])]
    \o << <<>> >>

BuildMarkdownContext(credentials, schema) ==
  IF Len(schema.tables) = 0
  THEN ConnectionLines(credentials) \o << <<"No tables found.">> >>
  ELSE ConnectionLines(credentials)
         \o Flatten([i \in DOMAIN schema.tables |-> SchemaTableLines(schema.tables[i])])

\* ---- the snapshots handed to the renderers

\* name, declared type, nullability, default
RenderColumns ==
  { <<sId, tInt, FALSE, Null>>,
    <<sEmail, tText, TRUE, Null>>,
    <<sAPipeB, <<"e", "|", "f">>, TRUE, sPipe>>,
    <<sBackslashPipe, tInt, FALSE, sBackslashPipe>>,
    <<sEndsInBackslash, tText, TRUE, sEndsInBackslash>>,
    <<sBackslash, tInt, FALSE, <<>>>> }

RECURSIVE SeqsUpTo(_, _)
SeqsUpTo(S, n) ==
  IF n = 0 THEN {<<>>}
  ELSE LET shorter == SeqsUpTo(S, n - 1)
       IN shorter \cup {Append(s, x) : s \in shorter, x \in S}

RenderForeignKeys ==
  LET fk1 == [name |-> fkA, columns |-> <<sAuthorId>>,
              referencedTable |-> [schema |-> sPublic, name |-> sAccounts],
              referencedColumns |-> <<sId>>, onUpdate |-> Null, onDelete |-> sCascade]
      fk2 == [name |-> Null, columns |-> <<c1, sAPipeB>>,
              referencedTable |-> [schema |-> Null, name |-> sPipe],
              referencedColumns |-> <<r1, r2>>, onUpdate |-> sNoAction, onDelete |-> Null]
  IN { <<>>, <<fk1>>, <<fk1, fk2>> }

GeneratorColumn(c) ==
  [name |-> c[1], dataType |-> c[2], isNullable |-> c[3], defaultValue |-> c[4]]

ManagerColumn(c) ==
  [name |-> c[1], dataType |-> c[2], nullable |-> c[3], defaultValue |-> c[4],
   isPrimaryKey |-> (c[1] = sId)]

GeneratorSnapshots(provider) ==
  LET Users(schema, cols, fks) ==
        [name |-> sUsers, schema |-> schema, type |-> "table",
         columns |-> [k \in DOMAIN cols |-> GeneratorColumn(cols[k])], foreignKeys |-> fks]
      view == [name |-> tC, schema |-> Null, type |-> "view", columns |-> <<>>,
               foreignKeys |-> <<>>]
  IN { [provider |-> provider, database |-> d, tables |-> ts] :
         d \in {Null, dbName},
         ts \in {<<>>}
                  \cup { <<Users(s, cols, fks)>> \o rest :
                           s \in {Null, sPublic}, cols \in SeqsUpTo(RenderColumns, MaxColumns),
                           fks \in RenderForeignKeys, rest \in {<<>>, <<view>>} } }

ManagerSnapshots(provider) ==
  LET Users(schema, cols) ==
        [name |-> sUsers, schema |-> schema,
         columns |-> [k \in DOMAIN cols |-> ManagerColumn(cols[k])]]
  IN { [provider |-> provider, tables |-> ts] :
         ts \in {<<>>}
                  \cup { <<Users(s, cols)>> :
                           s \in {Null, sPublic}, cols \in SeqsUpTo(RenderColumns, MaxColumns) } }

\* generateMarkdown renders what loadSchema returned; generateContextCommand
\* renders what fetchSchema returned.
RenderInit ==
  /\ adapter \in [loader : {"loadSchema", "fetchSchema"}, provider : {"postgres", "sqlite"}]
  /\ snapshot \in IF adapter.loader = "loadSchema" THEN GeneratorSnapshots(adapter.provider)
                  ELSE ManagerSnapshots(adapter.provider)
  /\ catalogTables = <<>>
  /\ columnRows = <<>>
  /\ pkRows = <<>>
  /\ fkRows = <<>>
  /\ clock = 0
  /\ documents = <<>>

\* Time passes between two renderings.
Tick ==
  /\ clock < MaxClock
  /\ clock' = clock + 1
  /\ UNCHANGED <<documents, schemaVars, callVars, commandVars, pragma, extVars>>

Render ==
  /\ Len(documents) < MaxRenders
  /\ documents' = Append(documents,
       [now |-> clock,
        lines |-> IF adapter.loader = "loadSchema"
                  THEN RenderMarkdown(snapshot, IsoString(clock))
                  ELSE BuildMarkdownContext(Credentials(adapter.provider), snapshot)])
  /\ UNCHANGED <<clock, schemaVars, callVars, commandVars, pragma, extVars>>

RenderIdle == clock = 0 /\ documents = <<>>

RenderNext == Tick \/ Render

Done(c) == calls[c].pc = "done"

(***************************************************************************)
(* The generate-context command (extension.ts): load, render, write        *)
(***************************************************************************)

\* The call a run of the command awaits.
CommandCall == "call1"

\* sql-context.generateContext drives DatabaseContextGenerator and
\* renderMarkdown; generateContextCommand drives DatabaseManager and
\* buildMarkdownContext.
Surfaces == {"generateContext", "generateContextCommand"}

LoaderOf(surface) == IF surface = "generateContext" THEN "loadSchema" ELSE "fetchSchema"

IdleCommand ==
  [pc |-> "idle", surface |-> "none", loaded |-> FALSE, rendered |-> FALSE, failure |-> "none"]

\* catch (error) { showErrorMessage(`Failed to generate ...: ${message}`) }
Catch(cmd, message) == [cmd EXCEPT !.pc = "done", !.failure = message]

ErrorMessage(message) == [severity |-> "error", text |-> <<"Failed to generate context: ", message>>]

\* The handler has its connection and its output path and enters the try
\* block: the loader starts.
Invoke ==
  /\ command.pc = "idle"
  /\ calls[CommandCall].pc = "idle"
  /\ \E surface \in Surfaces, cfg \in Configs :
       /\ command' = [IdleCommand EXCEPT !.pc = "loading", !.surface = surface]
       /\ calls' = [calls EXCEPT ![CommandCall] = Begin(LoaderOf(surface), cfg)]
  /\ UNCHANGED <<files, outputFile, shown, schemaVars, renderVars, pragma, extVars>>

\* A command that renders whatever the outcome of loading.
LoadResolvedWhateverTheOutcome ==
  /\ command.pc = "loading"
  /\ Done(CommandCall)
  /\ command' = [command EXCEPT !.pc = "render", !.loaded = TRUE]
  /\ UNCHANGED <<outputFile, shown, callVars, schemaVars, renderVars, pragma, extVars>>

\* await generator.generateMarkdown() / databaseManager.fetchSchema() resolves.
LoadResolved ==
  /\ command.pc = "loading"
  /\ Done(CommandCall)
  /\ calls[CommandCall].error = "none"
  /\ command' = [command EXCEPT !.pc = "render", !.loaded = TRUE]
  /\ UNCHANGED <<outputFile, shown, callVars, schemaVars, renderVars, pragma, extVars>>

\* The loader rejects: control passes to the catch clause.
LoadRejected ==
  /\ command.pc = "loading"
  /\ Done(CommandCall)
  /\ calls[CommandCall].error # "none"
  /\ command' = Catch(command, Thrown(calls[CommandCall]).message)
  /\ shown' = Append(shown, ErrorMessage(Thrown(calls[CommandCall]).message))
  /\ UNCHANGED <<outputFile, callVars, schemaVars, renderVars, pragma, extVars>>

\* renderMarkdown / buildMarkdownContext returns the document.
Rendered ==
  /\ command.pc = "render"
  /\ command' = [command EXCEPT !.pc = "mkdir", !.rendered = TRUE]
  /\ UNCHANGED <<outputFile, shown, callVars, schemaVars, renderVars, pragma, extVars>>

\* The renderer throws on a structurally invalid snapshot.
RenderFailed ==
  /\ command.pc = "render"
  /\ command' = Catch(command, "render message")
  /\ shown' = Append(shown, ErrorMessage("render message"))
  /\ UNCHANGED <<outputFile, callVars, schemaVars, renderVars, pragma, extVars>>

\* await ensureDirectory(...) resolves or rejects.
EnsureDirectory ==
  /\ command.pc = "mkdir"
  /\ \/ /\ command' = [command EXCEPT !.pc = "write"]
        /\ UNCHANGED shown
     \/ /\ command' = Catch(command, "mkdir message")
        /\ shown' = Append(shown, ErrorMessage("mkdir message"))
  /\ UNCHANGED <<outputFile, callVars, schemaVars, renderVars, pragma, extVars>>

\* await fs.writeFile(path, markdown, 'utf8') resolves, or rejects having
\* written nothing or a part of the document.
WriteFile ==
  /\ command.pc = "write"
  /\ \/ /\ command' = [command EXCEPT !.pc = "notify"]
        /\ outputFile' = "written"
        /\ UNCHANGED shown
     \/ /\ command' = Catch(command, "write message")
        /\ outputFile' \in {outputFile, "partial"}
        /\ shown' = Append(shown, ErrorMessage("write message"))
  /\ UNCHANGED <<callVars, schemaVars, renderVars, pragma, extVars>>

\* showInformationMessage(`Database context saved to ...`)
Notify ==
  /\ command.pc = "notify"
  /\ command' = [command EXCEPT !.pc = "done"]
  /\ shown' = Append(shown, [severity |-> "information", text |-> <<"Database context saved">>])
  /\ UNCHANGED <<outputFile, callVars, schemaVars, renderVars, pragma, extVars>>

CommandIdle == command = IdleCommand /\ outputFile = "absent" /\ shown = <<>>

\* A run of the command: the steps of its call and the steps of the handler.
CommandNext ==
  \/ Invoke
  \/ Access(CommandCall)
  \/ ConnectOk(CommandCall)
  \/ ConnectFail(CommandCall)
  \/ OpenOk(CommandCall)
  \/ OpenFail(CommandCall)
  \/ Issue(CommandCall)
  \/ QueryOk(CommandCall)
  \/ QueryFail(CommandCall)
  \/ Return(CommandCall)
  \/ Finally(CommandCall)
  \/ LoadResolved
  \/ LoadRejected
  \/ Rendered
  \/ RenderFailed
  \/ EnsureDirectory
  \/ WriteFile
  \/ Notify

(***************************************************************************)
(* Table names interpolated into the PRAGMA queries of the sqlite loaders  *)
(***************************************************************************)

\* Longest table name the master catalog reports.
MaxNameLen == 3

NameChars == {"t", "\"", "\\"}

TableNames == SeqsUpTo(NameChars, MaxNameLen) \ {<<>>}

\* value.replace(/"/g, '""')
RECURSIVE DoubleQuotes(_)
DoubleQuotes(value) ==
  IF value = <<>> THEN <<>>
  ELSE (IF Head(value) = "\"" THEN <<"\"", "\"">> ELSE <<Head(value)>>)
         \o DoubleQuotes(Tail(value))

\* contextGenerator.ts quoteSqliteIdentifier
QuoteSqliteIdentifier(value) == <<"\"">> \o DoubleQuotes(value) \o <<"\"">>

\* The characters of a JSON string literal: '"' and '\' get a backslash.
RECURSIVE JsonEscape(_)
JsonEscape(value) ==
  IF value = <<>> THEN <<>>
  ELSE (IF Head(value) \in {"\"", "\\"} THEN <<"\\", Head(value)>> ELSE <<Head(value)>>)
         \o JsonEscape(Tail(value))

\* JSON.stringify(table.name)
JsonStringify(value) == <<"\"">> \o JsonEscape(value) \o <<"\"">>

\* The fragment each loader puts between the parentheses of the PRAGMA.
PragmaArgument(loader, name) ==
  IF loader = "loadSchema" THEN QuoteSqliteIdentifier(name) ELSE JsonStringify(name)

\* The PRAGMA queries each loader issues for a table.
PragmasOf(loader) ==
  IF loader = "loadSchema" THEN <<"table_info", "foreign_key_list">> ELSE <<"table_info">>

\* The master catalog has reported a table; no PRAGMA has been issued.
PragmaInit ==
  pragma \in [loader : {"loadSchema", "fetchSchema"}, name : TableNames, issued : {<<>>}]

\* db.all(`PRAGMA table_info(${...})`), then for loadSqliteSchema
\* db.all(`PRAGMA foreign_key_list(${...})`).
IssuePragma ==
  /\ Len(pragma.issued) < Len(PragmasOf(pragma.loader))
  /\ pragma' = [pragma EXCEPT !.issued =
       Append(@, [pragma |-> PragmasOf(pragma.loader)[Len(pragma.issued) + 1],
                  argument |-> PragmaArgument(pragma.loader, pragma.name)])]
  /\ UNCHANGED <<callVars, schemaVars, renderVars, commandVars, extVars>>

PragmaIdle == pragma = [loader |-> "none", name |-> <<>>, issued |-> <<>>]

PragmaNext == IssuePragma

(***************************************************************************)
(* .env import and export (envUtils.ts)                                    *)
(***************************************************************************)

\* The longest value a populated field takes.
MaxValueLen == 2

\* Number(portValue) of text that is not a number, and a port left undefined.
PortNaN == -1

PortUndefined == -2

\* The characters of a value that the conversions treat differently; "a"
\* stands for every other character.
EnvChars == {"a", " ", "#", "=", "\"", "'", "\\"}

Whitespace == {" "}

EnvValues == UNION {[1..n -> EnvChars] : n \in 1..MaxValueLen}

\* The keys connectionFromEnv reads.  A key, like a word whose characters no
\* step looks into, is one element of a line.
EnvKeys ==
  {"DB_PROVIDER", "DB_TYPE", "DB_FILE", "SQLITE_FILE", "DATABASE_FILE",
   "DB_HOST", "HOST", "DB_PORT", "PORT", "DB_USER", "USER",
   "DB_PASSWORD", "PASSWORD", "DB_NAME", "DATABASE", "DB_SSL", "SSL"}

EmptyConfig(provider) ==
  [provider |-> provider, host |-> Null, port |-> PortUndefined, user |-> Null,
   password |-> Null, database |-> Null, ssl |-> "undefined", filePath |-> Null]

NoConfig == EmptyConfig("none")

NoOutcome == [ok |-> FALSE, error |-> "none", config |-> NoConfig]

RECURSIVE TrimStart(_)
TrimStart(s) ==
  IF s # <<>> /\ Head(s) \in Whitespace THEN TrimStart(Tail(s)) ELSE s

RECURSIVE TrimEnd(_)
TrimEnd(s) ==
  IF s # <<>> /\ s[Len(s)] \in Whitespace THEN TrimEnd(SubSeq(s, 1, Len(s) - 1)) ELSE s

Trim(s) == TrimEnd(TrimStart(s))

\* line.indexOf(ch), counted from 1; 0 when absent.
IndexOf(s, ch) ==
  IF \E i \in DOMAIN s : s[i] = ch
  THEN CHOOSE i \in DOMAIN s : s[i] = ch /\ \A j \in 1..(i - 1) : s[j] # ch
  ELSE 0

Quoted(value, quote) ==
  value # <<>> /\ Head(value) = quote /\ value[Len(value)] = quote

\* The value of one line: trimmed, and stripped of one pair of surrounding
\* quotes, whose content is taken as it stands.
LineValue(trimmed, eqIndex) ==
  LET value == Trim(SubSeq(trimmed, eqIndex + 1, Len(trimmed)))
  IN IF Quoted(value, "\"") \/ Quoted(value, "'")
     THEN SubSeq(value, 2, Len(value) - 1)
     ELSE value

RECURSIVE ParseLines(_, _)
ParseLines(lines, result) ==
  IF lines = <<>> THEN result
  ELSE LET trimmed == Trim(Head(lines))
           eqIndex == IndexOf(trimmed, "=")
           key     == Trim(SubSeq(trimmed, 1, eqIndex - 1))
       IN IF trimmed = <<>> \/ Head(trimmed) = "#" \/ eqIndex = 0
          THEN ParseLines(Tail(lines), result)
          ELSE IF Len(key) = 1 /\ key[1] \in EnvKeys
               THEN ParseLines(Tail(lines),
                               [result EXCEPT ![key[1]] = LineValue(trimmed, eqIndex)])
               ELSE ParseLines(Tail(lines), result)

\* parseEnv: the content is the sequence of its lines.
ParseEnv(content) == ParseLines(content, [k \in EnvKeys |-> Null])

\* a ?? b
Coalesce(a, b) == IF a # Null THEN a ELSE b

ToLowerCase(value) ==
  [i \in DOMAIN value |->
     IF value[i] = "POSTGRES" THEN "postgres"
     ELSE IF value[i] = "SQLite" THEN "sqlite"
     ELSE value[i]]

\* resolveProvider; "none" when it throws.
ResolveProvider(parsed) ==
  LET value == Coalesce(parsed["DB_PROVIDER"], parsed["DB_TYPE"])
      lower == IF value = Null THEN Null ELSE ToLowerCase(value)
  IN IF lower \in {<<"postgres">>, <<"postgresql">>, <<"pg">>} THEN "postgres"
     ELSE IF lower \in {<<"mysql">>, <<"mariadb">>} THEN "mysql"
     ELSE IF lower \in {<<"sqlite">>, <<"sqlite3">>} THEN "sqlite"
     ELSE "none"

DigitChars == <<"0", "1", "2", "3", "4", "5", "6", "7", "8", "9">>

\* String(port) of a non-negative integer.
RECURSIVE StringOfNumber(_)
StringOfNumber(n) ==
  IF n < 10 THEN <<DigitChars[n + 1]>>
  ELSE StringOfNumber(n \div 10) \o <<DigitChars[(n % 10) + 1]>>

DigitValue(ch) == (CHOOSE i \in DOMAIN DigitChars : DigitChars[i] = ch) - 1

\* Number(portValue) of non-empty text.
RECURSIVE NumberOfString(_)
NumberOfString(s) ==
  IF \E i \in DOMAIN s : s[i] \notin {DigitChars[d] : d \in DOMAIN DigitChars} THEN PortNaN
  ELSE IF Len(s) = 1 THEN DigitValue(s[1])
  ELSE 10 * NumberOfString(SubSeq(s, 1, Len(s) - 1)) + DigitValue(s[Len(s)])

Rejected(message) == [ok |-> FALSE, error |-> message, config |-> NoConfig]

\* connectionFromEnv
ConnectionFromEnv(content) ==
  LET parsed    == ParseEnv(content)
      provider  == ResolveProvider(parsed)
      file      == Coalesce(parsed["DB_FILE"],
                            Coalesce(parsed["SQLITE_FILE"], parsed["DATABASE_FILE"]))
      host      == Coalesce(parsed["DB_HOST"], parsed["HOST"])
      portValue == Coalesce(parsed["DB_PORT"], parsed["PORT"])
      user      == Coalesce(parsed["DB_USER"], parsed["USER"])
      password  == Coalesce(parsed["DB_PASSWORD"], parsed["PASSWORD"])
      database  == Coalesce(parsed["DB_NAME"], parsed["DATABASE"])
      sslValue  == Coalesce(parsed["DB_SSL"], parsed["SSL"])
  IN IF provider = "none" THEN Rejected("DB_PROVIDER/DB_TYPE is required")
     ELSE IF provider = "sqlite"
     THEN IF ~Truthy(file) THEN Rejected("DB_FILE is required")
          ELSE [ok |-> TRUE, error |-> "none",
                config |-> [EmptyConfig(provider) EXCEPT !.filePath = file]]
     ELSE IF ~Truthy(host) THEN Rejected("DB_HOST is required")
     ELSE IF ~Truthy(database) THEN Rejected("DB_NAME is required")
     ELSE IF ~Truthy(user) THEN Rejected("DB_USER is required")
     ELSE [ok |-> TRUE, error |-> "none",
           config |->
             [EmptyConfig(provider) EXCEPT
                !.host = host,
                !.port = IF Truthy(portValue) THEN NumberOfString(portValue)
                         ELSE PortUndefined,
                !.user = user,
                !.password = password,
                !.database = database,
                !.ssl = IF ~Truthy(sslValue) THEN "undefined"
                        ELSE IF sslValue \in {<<"true">>, <<"1">>} THEN "true"
                        ELSE "false"]]

\* escapeValue
EscapeValue(value) ==
  IF \E i \in DOMAIN value : value[i] \in Whitespace \cup {"#", "="}
  THEN JsonStringify(value)
  ELSE value

\* The entries of connectionToEnv, before the empty ones are filtered out.
EnvEntries(config) ==
  <<[key |-> "DB_TYPE", value |-> <<config.provider>>]>> \o
  (IF config.provider = "sqlite"
   THEN <<[key |-> "DB_FILE", value |-> config.filePath]>>
   ELSE <<[key |-> "DB_HOST", value |-> config.host],
          [key |-> "DB_PORT",
           value |-> IF config.port \notin {0, PortNaN, PortUndefined}
                     THEN StringOfNumber(config.port) ELSE Null],
          [key |-> "DB_USER", value |-> config.user],
          [key |-> "DB_PASSWORD", value |-> config.password],
          [key |-> "DB_NAME", value |-> config.database]>>
        \o (IF config.ssl = "undefined" THEN <<>>
            ELSE <<[key |-> "DB_SSL", value |-> <<config.ssl>>]>>))

\* connectionToEnv: one line per entry with a non-empty value.
ConnectionToEnv(config) ==
  LET entries == SelectSeq(EnvEntries(config), LAMBDA e : Truthy(e.value))
  IN [i \in DOMAIN entries |->
        <<entries[i].key, "=">> \o EscapeValue(entries[i].value)]

\* The lines of a file written after the README's table: any subset of the
\* keys, under the README's names or the alternative ones.
ReadmeKeys ==
  {"DB_TYPE", "DB_HOST", "DB_PORT", "DB_USER", "DB_PASSWORD", "DB_NAME", "DB_SSL", "DB_FILE"}

KeyOrder ==
  <<"DB_TYPE", "DB_HOST", "DB_PORT", "DB_USER", "DB_PASSWORD", "DB_NAME", "DB_SSL", "DB_FILE">>

Alternative(key) ==
  CASE key = "DB_TYPE" -> "DB_PROVIDER"
    [] key = "DB_HOST" -> "HOST"
    [] key = "DB_PORT" -> "PORT"
    [] key = "DB_USER" -> "USER"
    [] key = "DB_PASSWORD" -> "PASSWORD"
    [] key = "DB_NAME" -> "DATABASE"
    [] key = "DB_SSL" -> "SSL"
    [] key = "DB_FILE" -> "SQLITE_FILE"

SampleValue(key, type) ==
  CASE key = "DB_TYPE" -> <<type>>
    [] key = "DB_HOST" -> <<"localhost">>
    [] key = "DB_PORT" -> <<"5", "4", "3", "2">>
    [] key = "DB_USER" -> <<"app">>
    [] key = "DB_PASSWORD" -> <<"secret">>
    [] key = "DB_NAME" -> <<"shop">>
    [] key = "DB_SSL" -> <<"true">>
    [] key = "DB_FILE" -> <<"data.db">>

EnvTypes == {"postgres", "mysql", "sqlite", "POSTGRES", "oracle"}

ContentOf(keys, type, alternative) ==
  LET present == SelectSeq(KeyOrder, LAMBDA k : k \in keys)
  IN [i \in DOMAIN present |->
        <<IF alternative THEN Alternative(present[i]) ELSE present[i], "=">>
          \o SampleValue(present[i], type)]

ImportContents ==
  {ContentOf(keys, type, alternative) :
     keys \in SUBSET ReadmeKeys, type \in {"postgres", "mysql", "sqlite"},
     alternative \in {FALSE}}
  \cup {ContentOf(ReadmeKeys \ {k}, type, TRUE) :
          k \in ReadmeKeys, type \in EnvTypes}

\* The configs whose provider-relevant fields are populated.
Populated(config) ==
  IF config.provider = "sqlite" THEN Truthy(config.filePath)
  ELSE /\ config.provider \in {"postgres", "mysql"}
       /\ Truthy(config.host) /\ Truthy(config.user) /\ Truthy(config.database)
       /\ Truthy(config.password) /\ config.port > 0

ExportConfigs ==
  {[EmptyConfig("sqlite") EXCEPT !.filePath = v] : v \in EnvValues}
  \cup {[EmptyConfig(p) EXCEPT !.host = <<"localhost">>, !.port = 5432,
           !.user = <<"app">>, !.database = <<"shop">>, !.password = v, !.ssl = s] :
          p \in {"postgres", "mysql"}, v \in EnvValues,
          s \in {"undefined", "true", "false"}}

EnvIdle == env = [stage |-> "idle", config |-> NoConfig, content |-> <<>>,
                  outcome |-> NoOutcome]

EnvInit ==
  \/ \E content \in ImportContents :
       env = [stage |-> "content", config |-> NoConfig, content |-> content,
              outcome |-> NoOutcome]
  \/ \E config \in ExportConfigs :
       env = [stage |-> "config", config |-> config, content |-> <<>>,
              outcome |-> NoOutcome]

\* exportToEnv writes the text of the stored config.
Export ==
  /\ env.stage = "config"
  /\ env' = [env EXCEPT !.stage = "content", !.content = ConnectionToEnv(env.config)]
  /\ UNCHANGED <<notEnvVars, managerVars>>

\* importFromEnv reads a text.
Import ==
  /\ env.stage = "content"
  /\ env' = [env EXCEPT !.stage = "imported", !.outcome = ConnectionFromEnv(env.content)]
  /\ UNCHANGED <<notEnvVars, managerVars>>

EnvNext == Export \/ Import

(***************************************************************************)
(* ConnectionManager and the settings panel's save message                 *)
(***************************************************************************)

\* The operations started in one behaviour.
MaxTasks == 2

\* The asynchronous operations the extension host may have in flight.
Tasks == {"task1", "task2"}

\* The URIs of the workspace folders.
Folders == {"A", "B"}

SecretPrefix == "sql-context.connection:"

GetSecretKeyIgnoringFolder(folder) == <<SecretPrefix, "A">>

\* getSecretKey
GetSecretKey(folder) == <<SecretPrefix, folder>>

SecretKeys == {GetSecretKey(folder) : folder \in Folders}

NoSecret == [version |-> 0, config |-> NoConfig]

\* JSON.stringify({ version: 1, config }): a field that is undefined is left
\* out, and a number that is NaN is written as null.
PortNull == -3

StorePayload(config) ==
  [version |-> 1,
   config |-> [config EXCEPT !.port = IF @ = PortNaN THEN PortNull ELSE @]]

\* The config getConnection takes from the text read; NoConfig for undefined.
ParsePayload(raw) ==
  IF raw # NoSecret /\ raw.version = 1 /\ raw.config # NoConfig THEN raw.config
  ELSE NoConfig

NetworkConfig(provider, password) ==
  [EmptyConfig(provider) EXCEPT !.host = <<"localhost">>, !.port = 5432,
     !.user = <<"app">>, !.database = <<"shop">>, !.password = password]

\* The configs submitted by the panel or saved by the commands.
ManagerConfigs ==
  {NetworkConfig("postgres", <<"secret">>),
   NetworkConfig("postgres", <<>>),
   NetworkConfig("postgres", Null),
   NetworkConfig("mysql", <<"other">>),
   [EmptyConfig("sqlite") EXCEPT !.filePath = <<"data.db">>]}

NetworkKeys == {"DB_TYPE", "DB_HOST", "DB_PORT", "DB_USER", "DB_PASSWORD", "DB_NAME"}

\* The texts handed to importFromEnv: a complete one, one without DB_TYPE,
\* one of an unrecognized engine, one without DB_HOST.
ManagerContents ==
  {ContentOf(NetworkKeys, "mysql", FALSE),
   ContentOf(NetworkKeys \ {"DB_TYPE"}, "mysql", FALSE),
   ContentOf(NetworkKeys, "oracle", FALSE),
   ContentOf(NetworkKeys \ {"DB_HOST"}, "mysql", FALSE)}

IdleTask ==
  [kind |-> "none", folder |-> "A", pc |-> "idle", config |-> NoConfig,
   content |-> <<>>, submitted |-> NoConfig, raw |-> NoSecret,
   before |-> NoConfig, result |-> NoConfig, error |-> "none"]

CanStart(t) == tasks[t].pc \in {"idle", "done"} /\ started < MaxTasks

Begun(kind, folder) == [IdleTask EXCEPT !.kind = kind, !.folder = folder]

MergePasswordNever(next, existing) == next

\* The config the save message stores.
MergePassword(next, existing) ==
  IF /\ next.provider # "sqlite"
     /\ ~Truthy(next.password)
     /\ existing # NoConfig
     /\ existing.provider # "sqlite"
  THEN [next EXCEPT !.password = existing.password]
  ELSE next

\* getConnection up to its await: the cached config, or the read of the
\* secret storage is requested.
GetConnection(t) ==
  /\ CanStart(t)
  /\ \E folder \in Folders :
       LET key == GetSecretKey(folder)
       IN tasks' = [tasks EXCEPT ![t] =
            IF cache[key] # NoConfig
            THEN [Begun("getConnection", folder) EXCEPT
                    !.pc = "done", !.result = cache[key]]
            ELSE [Begun("getConnection", folder) EXCEPT !.pc = "awaitGet"]]
  /\ started' = started + 1
  /\ UNCHANGED <<secrets, cache, notEnvVars, env>>

\* saveConnection up to its await.
SaveConnection(t) ==
  /\ CanStart(t)
  /\ \E folder \in Folders, config \in ManagerConfigs :
       tasks' = [tasks EXCEPT ![t] =
         [Begun("saveConnection", folder) EXCEPT !.pc = "awaitStore", !.config = config]]
  /\ started' = started + 1
  /\ UNCHANGED <<secrets, cache, notEnvVars, env>>

\* removeConnection up to its await.
RemoveConnection(t) ==
  /\ CanStart(t)
  /\ \E folder \in Folders :
       tasks' = [tasks EXCEPT ![t] =
         [Begun("removeConnection", folder) EXCEPT !.pc = "awaitDelete"]]
  /\ started' = started + 1
  /\ UNCHANGED <<secrets, cache, notEnvVars, env>>

ImportFromEnvIgnoringRejection(t) ==
  /\ CanStart(t)
  /\ \E folder \in Folders, content \in ManagerContents :
       tasks' = [tasks EXCEPT ![t] =
         [Begun("importFromEnv", folder) EXCEPT
            !.content = content, !.pc = "awaitStore",
            !.config = ConnectionFromEnv(content).config]]
  /\ started' = started + 1
  /\ UNCHANGED <<secrets, cache, notEnvVars, env>>

\* importFromEnv up to its await: connectionFromEnv throws, or its config is
\* handed to saveConnection.
ImportFromEnv(t) ==
  /\ CanStart(t)
  /\ \E folder \in Folders, content \in ManagerContents :
       LET payload == ConnectionFromEnv(content)
       IN tasks' = [tasks EXCEPT ![t] =
            IF payload.ok
            THEN [Begun("importFromEnv", folder) EXCEPT
                    !.content = content, !.pc = "awaitStore", !.config = payload.config]
            ELSE [Begun("importFromEnv", folder) EXCEPT
                    !.content = content, !.pc = "done", !.error = payload.error]]
  /\ started' = started + 1
  /\ UNCHANGED <<secrets, cache, notEnvVars, env>>

\* The handler of the panel's save message up to its first await: the
\* cached config is merged and handed to saveConnection, or the read of the
\* secret storage is requested.  before records the stored config.
SettingsSave(t) ==
  /\ CanStart(t)
  /\ \E folder \in Folders, config \in ManagerConfigs :
       LET key   == GetSecretKey(folder)
           begun == [Begun("settingsSave", folder) EXCEPT
                       !.submitted = config, !.before = ParsePayload(secrets[key])]
       IN tasks' = [tasks EXCEPT ![t] =
            IF cache[key] # NoConfig
            THEN [begun EXCEPT !.pc = "awaitStore",
                               !.config = MergePassword(config, cache[key])]
            ELSE [begun EXCEPT !.pc = "awaitGet", !.config = config]]
  /\ started' = started + 1
  /\ UNCHANGED <<secrets, cache, notEnvVars, env>>

\* The secret storage answers a read.
SecretsGet(t) ==
  /\ tasks[t].pc = "awaitGet"
  /\ tasks' = [tasks EXCEPT ![t].pc = "gotRaw",
                            ![t].raw = secrets[GetSecretKey(tasks[t].folder)]]
  /\ UNCHANGED <<secrets, cache, started, notEnvVars, env>>

\* getConnection after its await; inside the save handler the merge and the
\* call of saveConnection follow.
ResumeGet(t) ==
  LET key  == GetSecretKey(tasks[t].folder)
      conn == ParsePayload(tasks[t].raw)
  IN /\ tasks[t].pc = "gotRaw"
     /\ cache' = IF conn # NoConfig THEN [cache EXCEPT ![key] = conn] ELSE cache
     /\ tasks' = [tasks EXCEPT ![t] =
          IF tasks[t].kind = "settingsSave"
          THEN [@ EXCEPT !.pc = "awaitStore", !.config = MergePassword(@, conn)]
          ELSE [@ EXCEPT !.pc = "done", !.result = conn]]
     /\ UNCHANGED <<secrets, started, notEnvVars, env>>

\* The secret storage stores the text.
SecretsStore(t) ==
  /\ tasks[t].pc = "awaitStore"
  /\ secrets' = [secrets EXCEPT ![GetSecretKey(tasks[t].folder)] =
                   StorePayload(tasks[t].config)]
  /\ tasks' = [tasks EXCEPT ![t].pc = "stored"]
  /\ UNCHANGED <<cache, started, notEnvVars, env>>

\* saveConnection after its await; inside the save handler sendState follows,
\* whose getConnection finds the config just cached.
ResumeStore(t) ==
  LET key == GetSecretKey(tasks[t].folder)
  IN /\ tasks[t].pc = "stored"
     /\ cache' = [cache EXCEPT ![key] = tasks[t].config]
     /\ tasks' = [tasks EXCEPT ![t].pc = "done", ![t].result = cache'[key]]
     /\ UNCHANGED <<secrets, started, notEnvVars, env>>

\* The secret storage deletes the entry.
SecretsDelete(t) ==
  /\ tasks[t].pc = "awaitDelete"
  /\ secrets' = [secrets EXCEPT ![GetSecretKey(tasks[t].folder)] = NoSecret]
  /\ tasks' = [tasks EXCEPT ![t].pc = "deleted"]
  /\ UNCHANGED <<cache, started, notEnvVars, env>>

\* removeConnection after its await.
ResumeDelete(t) ==
  /\ tasks[t].pc = "deleted"
  /\ cache' = [cache EXCEPT ![GetSecretKey(tasks[t].folder)] = NoConfig]
  /\ tasks' = [tasks EXCEPT ![t].pc = "done"]
  /\ UNCHANGED <<secrets, started, notEnvVars, env>>

ManagerIdle ==
  /\ secrets = [key \in SecretKeys |-> NoSecret]
  /\ cache = [key \in SecretKeys |-> NoConfig]
  /\ tasks = [t \in Tasks |-> IdleTask]
  /\ started = 0

\* A new extension host: the cache is empty, the secret storage holds what
\* earlier sessions stored.
ManagerInit ==
  /\ secrets \in [SecretKeys ->
                    {NoSecret, StorePayload(NetworkConfig("postgres", <<"secret">>))}]
  /\ cache = [key \in SecretKeys |-> NoConfig]
  /\ tasks = [t \in Tasks |-> IdleTask]
  /\ started = 0

ManagerStep(t) ==
  \/ GetConnection(t)
  \/ SaveConnection(t)
  \/ RemoveConnection(t)
  \/ ImportFromEnv(t)
  \/ SettingsSave(t)
  \/ SecretsGet(t)
  \/ ResumeGet(t)
  \/ SecretsStore(t)
  \/ ResumeStore(t)
  \/ SecretsDelete(t)
  \/ ResumeDelete(t)

\* Operations started while others are suspended.
ManagerNext == \E t \in Tasks : ManagerStep(t)

\* Operations started one after the other, each when the one before is done.
SettingsNext == \E t \in {"task1"} : ManagerStep(t)

(***************************************************************************)
(* The foreign-key query of loadPostgresSchema                             *)
(***************************************************************************)

\* The most column pairs a declared foreign key has.
MaxPairs == 2

\* The orders in which n rows of a catalog view can be scanned.
Orders(n) == {p \in [1..n -> 1..n] : \A i, j \in 1..n : p[i] = p[j] => i = j}

LocalColumn(i) == <<"c">> \o StringOfNumber(i)

ReferencedColumn(i) == <<"r">> \o StringOfNumber(i)

\* The column pairs a constraint can be declared with: n distinct columns,
\* each referencing one of n distinct columns of the other table.
PairLists ==
  UNION {{[i \in 1..n |-> [column |-> LocalColumn(from[i]),
                            referenced |-> ReferencedColumn(to[i])]] :
            from \in Orders(n), to \in Orders(n)} : n \in 1..MaxPairs}
  \cup {<<[column |-> LocalColumn(i), referenced |-> ReferencedColumn(j)]>> :
          i \in 1..MaxPairs, j \in 1..MaxPairs}

Declared(name, table, pairs) ==
  [constraint_name |-> name, table_schema |-> sA, table_name |-> table,
   foreign_table_schema |-> sAB, foreign_table_name |-> tC,
   update_rule |-> sNoAction, delete_rule |-> sCascade, pairs |-> pairs]

\* The foreign keys declared in the database, in the order of the query's
\* ORDER BY: fk_a on a."b.c", and possibly fk_b on a.c.
DeclaredCatalogs ==
  {<<Declared(fkA, tBC, pairs)>> : pairs \in PairLists}
  \cup {<<Declared(fkA, tBC, pairs), Declared(fkB, tC, others)>> :
          pairs \in PairLists, others \in PairLists}

\* information_schema.key_column_usage: one row per column of a constraint.
KeyColumnUsage(declared) ==
  Flatten([k \in DOMAIN declared |->
    [i \in DOMAIN declared[k].pairs |->
       [constraint_name |-> declared[k].constraint_name,
        table_schema |-> declared[k].table_schema,
        table_name |-> declared[k].table_name,
        column_name |-> declared[k].pairs[i].column,
        ordinal_position |-> i]]])

\* The members of 1..n in the order a scan of MaxPairs rows visits them.
ScanOrder(scan, n) == SelectSeq(scan, LAMBDA i : i <= n)

\* information_schema.constraint_column_usage: one row per referenced column
\* of a constraint, in the order of the scan.
ConstraintColumnUsage(declared, scan) ==
  Flatten([k \in DOMAIN declared |->
    LET order == ScanOrder(scan, Len(declared[k].pairs))
    IN [i \in DOMAIN order |->
          [constraint_name |-> declared[k].constraint_name,
           constraint_schema |-> declared[k].table_schema,
           table_schema |-> declared[k].foreign_table_schema,
           table_name |-> declared[k].foreign_table_name,
           column_name |-> declared[k].pairs[order[i]].referenced]]])

JoinedRow(tc, kcu, ccu) ==
  [constraint_name |-> tc.constraint_name,
   table_schema |-> kcu.table_schema, table_name |-> kcu.table_name,
   column_name |-> kcu.column_name,
   foreign_table_schema |-> ccu.table_schema,
   foreign_table_name |-> ccu.table_name,
   foreign_column_name |-> ccu.column_name,
   update_rule |-> tc.update_rule, delete_rule |-> tc.delete_rule]

\* The rows of the query: table_constraints joined with key_column_usage and
\* with constraint_column_usage, each on the constraint's name and schema,
\* ordered by table, constraint and ordinal position.
ForeignKeyRows(declared, scan) ==
  Flatten([k \in DOMAIN declared |->
    LET tc  == declared[k]
        kcu == SelectSeq(KeyColumnUsage(declared),
                 LAMBDA row : /\ row.constraint_name = tc.constraint_name
                              /\ row.table_schema = tc.table_schema)
        ccu == SelectSeq(ConstraintColumnUsage(declared, scan),
                 LAMBDA row : /\ row.constraint_name = tc.constraint_name
                              /\ row.constraint_schema = tc.table_schema)
    IN Flatten([i \in DOMAIN kcu |->
                 [j \in DOMAIN ccu |-> JoinedRow(tc, kcu[i], ccu[j])]])])

JoinIdle == fkJoin = [stage |-> "idle", declared |-> <<>>, rows |-> <<>>, fkMap |-> <<>>]

JoinInit ==
  \E declared \in DeclaredCatalogs :
    fkJoin = [stage |-> "declared", declared |-> declared, rows |-> <<>>, fkMap |-> <<>>]

\* client.query of the foreign-key query.
QueryForeignKeys ==
  /\ fkJoin.stage = "declared"
  /\ \E scan \in Orders(MaxPairs) :
       fkJoin' = [fkJoin EXCEPT !.stage = "rows",
                                !.rows = ForeignKeyRows(fkJoin.declared, scan)]
  /\ UNCHANGED <<coreVars, env, managerVars, listing>>

\* The loop that groups the rows into fkMap.
GroupForeignKeys ==
  /\ fkJoin.stage = "rows"
  /\ fkJoin' = [fkJoin EXCEPT !.stage = "grouped",
                              !.fkMap = FkMap("postgres", fkJoin.rows, <<>>)]
  /\ UNCHANGED <<coreVars, env, managerVars, listing>>

JoinNext == QueryForeignKeys \/ GroupForeignKeys

(***************************************************************************)
(* The queries that list the tables (loadPostgresSchema, loadSqliteSchema) *)
(***************************************************************************)

\* The most relations a catalog holds.
MaxListed == 2

sSqlite == <<"s", "q", "l", "i", "t", "e">>

\* The pattern of NOT LIKE 'sqlite_%'.
SqliteInternalPattern == sSqlite \o <<"_", "%">>

\* The internal prefix of the names SQLite reserves.
SqliteInternalPrefix == sSqlite \o <<"_">>

\* value LIKE pattern: % matches any run of characters, _ any one character.
\* (LIKE compares without regard to case; the names here are lower-case.)
RECURSIVE Like(_, _)
Like(value, pattern) ==
  IF pattern = <<>> THEN value = <<>>
  ELSE IF Head(pattern) = "%"
       THEN \E k \in 0..Len(value) : Like(SubSeq(value, k + 1, Len(value)), Tail(pattern))
  ELSE IF Head(pattern) = "_"
       THEN value # <<>> /\ Like(Tail(value), Tail(pattern))
  ELSE value # <<>> /\ Head(value) = Head(pattern) /\ Like(Tail(value), Tail(pattern))

StartsWith(value, prefix) ==
  Len(value) >= Len(prefix) /\ SubSeq(value, 1, Len(prefix)) = prefix

\* The names of the relations of a file-based database: with and without
\* the letters "sqlite" in front.
ListedNames ==
  {prefix \o suffix :
     prefix \in {<<>>, sSqlite},
     suffix \in {<<>>, <<"_">>, <<"x">>, <<"_", "x">>, <<"x", "_">>, <<"x", "x">>}}
  \ {<<>>}

SqliteMasterRows ==
  {[schema |-> Null, name |-> name, type |-> type] :
     name \in ListedNames, type \in {"table", "view", "index"}}

\* A schema or table name of the networked engine is one word.
SystemSchemas == {<<"information_schema">>, <<"pg_catalog">>}

PostgresTableRows ==
  {[schema |-> schema, name |-> name, type |-> type] :
     schema \in SystemSchemas \cup {<<"public">>, <<"pg_catalogs">>},
     name \in {<<"orders">>, <<"users">>},
     type \in {"BASE TABLE", "VIEW"}}

\* The catalogs: up to n relations of one engine, no two of the same schema
\* and name.
RECURSIVE CatalogsUpTo(_, _)
CatalogsUpTo(rows, n) ==
  IF n = 0 THEN {{}}
  ELSE LET smaller == CatalogsUpTo(rows, n - 1)
       IN smaller \cup
          UNION {{catalog \cup {r} :
                    r \in {x \in rows :
                             \A o \in catalog : x.schema # o.schema \/ x.name # o.name}} :
                   catalog \in smaller}

Catalogs(rows) == CatalogsUpTo(rows, MaxListed) \ {{}}

\* The characters and words in the order the ORDER BY compares them.
Collation ==
  <<"_", "e", "i", "information_schema", "l", "orders", "pg_catalog", "pg_catalogs",
    "public", "q", "s", "t", "users", "x">>

CollationRank(ch) == CHOOSE i \in DOMAIN Collation : Collation[i] = ch

RECURSIVE TextLessEq(_, _)
TextLessEq(a, b) ==
  IF a = <<>> THEN TRUE
  ELSE IF b = <<>> THEN FALSE
  ELSE IF Head(a) = Head(b) THEN TextLessEq(Tail(a), Tail(b))
  ELSE CollationRank(Head(a)) < CollationRank(Head(b))

\* ORDER BY table_schema, table_name / ORDER BY name
RowLessEq(r, o) ==
  IF r.schema = o.schema THEN TextLessEq(r.name, o.name)
  ELSE TextLessEq(r.schema, o.schema)

RECURSIVE OrderRows(_)
OrderRows(rows) ==
  IF rows = {} THEN <<>>
  ELSE LET first == CHOOSE r \in rows : \A o \in rows : RowLessEq(r, o)
       IN <<first>> \o OrderRows(rows \ {first})

\* The rows of the query of the networked engine.
PostgresListed(catalog) ==
  OrderRows({r \in catalog : r.schema \notin {<<"pg_catalog">>, <<"information_schema">>}})

\* The rows of the query of the file-based engine.
SqliteListed(catalog) ==
  OrderRows({r \in catalog :
               r.type \in {"table", "view"} /\ ~Like(r.name, SqliteInternalPattern)})

\* The descriptors made of the rows.
ListedTables(provider, rows) ==
  [i \in DOMAIN rows |->
     [schema |-> rows[i].schema, name |-> rows[i].name,
      type |-> IF provider = "postgres"
               THEN (IF rows[i].type = "VIEW" THEN "view" ELSE "table")
               ELSE (IF rows[i].type = "view" THEN "view" ELSE "table")]]

ListingIdle ==
  listing = [stage |-> "idle", provider |-> "none", catalog |-> {}, rows |-> <<>>,
             tables |-> <<>>]

ListingInit ==
  \/ \E catalog \in Catalogs(PostgresTableRows) :
       listing = [stage |-> "catalog", provider |-> "postgres", catalog |-> catalog,
                  rows |-> <<>>, tables |-> <<>>]
  \/ \E catalog \in Catalogs(SqliteMasterRows) :
       listing = [stage |-> "catalog", provider |-> "sqlite", catalog |-> catalog,
                  rows |-> <<>>, tables |-> <<>>]

\* client.query / db.all of the query that lists the tables.
ListTables ==
  /\ listing.stage = "catalog"
  /\ listing' = [listing EXCEPT
       !.stage = "rows",
       !.rows = IF listing.provider = "postgres" THEN PostgresListed(listing.catalog)
                ELSE SqliteListed(listing.catalog)]
  /\ UNCHANGED <<coreVars, env, managerVars, fkJoin>>

\* The tables of the returned snapshot.
ReturnTables ==
  /\ listing.stage = "rows"
  /\ listing' = [listing EXCEPT !.stage = "returned",
                                !.tables = ListedTables(listing.provider, listing.rows)]
  /\ UNCHANGED <<coreVars, env, managerVars, fkJoin>>

ListingNext == ListTables \/ ReturnTables

ExtIdle == EnvIdle /\ ManagerIdle /\ JoinIdle /\ ListingIdle

CallInit ==
  /\ calls = [c \in Calls |-> IdleCall]
  /\ files \in [Paths -> BOOLEAN]

CallNext ==
  \E c \in Calls :
    \/ Start(c)
    \/ Access(c)
    \/ ConnectOk(c)
    \/ ConnectFail(c)
    \/ OpenOk(c)
    \/ OpenFail(c)
    \/ Issue(c)
    \/ QueryOk(c)
    \/ QueryFail(c)
    \/ Return(c)
    \/ Finally(c)

Init == CallInit /\ SchemaIdle /\ RenderIdle /\ CommandIdle /\ PragmaIdle /\ ExtIdle

Next == CallNext

Spec == Init /\ [][Next]_vars

CallIdle == calls = [c \in Calls |-> IdleCall] /\ files = [p \in Paths |-> FALSE]

SchemaSpecInit == SchemaInit /\ CallIdle /\ RenderIdle /\ CommandIdle /\ PragmaIdle /\ ExtIdle

SchemaSpec == SchemaSpecInit /\ [][SchemaNext]_vars

RenderSpecInit == RenderInit /\ CallIdle /\ CommandIdle /\ PragmaIdle /\ ExtIdle

RenderSpec == RenderSpecInit /\ [][RenderNext]_vars

CommandSpecInit == CallInit /\ SchemaIdle /\ RenderIdle /\ CommandIdle /\ PragmaIdle /\ PragmaIdle /\ ExtIdle

CommandSpec == CommandSpecInit /\ [][CommandNext]_vars

PragmaSpecInit == PragmaInit /\ CallIdle /\ SchemaIdle /\ RenderIdle /\ CommandIdle /\ ExtIdle

PragmaSpec == PragmaSpecInit /\ [][PragmaNext]_vars

EnvSpecInit ==
  /\ EnvInit /\ ManagerIdle /\ JoinIdle /\ ListingIdle
  /\ CallIdle /\ SchemaIdle /\ RenderIdle /\ CommandIdle /\ PragmaIdle

CoreIdle == CallIdle /\ SchemaIdle /\ RenderIdle /\ CommandIdle /\ PragmaIdle

ManagerSpecInit == ManagerInit /\ EnvIdle /\ JoinIdle /\ ListingIdle /\ CoreIdle

ManagerSpec == ManagerSpecInit /\ [][ManagerNext]_vars

SettingsSpec == ManagerSpecInit /\ [][SettingsNext]_vars

JoinSpecInit == JoinInit /\ EnvIdle /\ ManagerIdle /\ ListingIdle /\ CoreIdle

JoinSpec == JoinSpecInit /\ [][JoinNext]_vars

ListingSpecInit == ListingInit /\ EnvIdle /\ ManagerIdle /\ JoinIdle /\ CoreIdle

ListingSpec == ListingSpecInit /\ [][ListingNext]_vars

EnvSpec == EnvSpecInit /\ [][EnvNext]_vars

(***************************************************************************)
(* Claims about the connection life cycle                                  *)
(***************************************************************************)

IsIntrospection(c) == calls[c].op \in {"loadSchema", "fetchSchema"}

\* C1: when a call has returned or thrown, every client, connection or
\* database handle it created has been closed, whatever the exit path
\* (success, failure of connect, failure of a query).
C1_NoHandleLeftOpen ==
  \A c \in Calls : Done(c) => calls[c].handle \in {"none", "closed"}

\* C2: an sqlite introspection that finds no file at its path fails with
\* the not-found error, has not attempted to open the database, and has
\* created no file.
C2_MissingFileIsNotFound ==
  \A c \in Calls :
    (Done(c) /\ IsIntrospection(c) /\ calls[c].config.provider = "sqlite"
       /\ calls[c].foundFile = "missing")
    => (calls[c].error = "NotFound" /\ calls[c].mode = "none" /\ ~calls[c].createdFile)

\* C3: the probe issues no query but SELECT 1; on sqlite it opens the file
\* read-only, never creates a file, and fails when no file is at the path.
C3_ProbeIsTrivialAndReadOnly ==
  \A c \in Calls :
    calls[c].op = "testConnection" =>
      /\ \A i \in 1..Len(calls[c].queries) : calls[c].queries[i] = "SELECT 1"
      /\ Len(calls[c].queries) <= 1
      /\ calls[c].mode \in {"none", "OPEN_READONLY"}
      /\ ~calls[c].createdFile
      /\ calls[c].foundFile = "missing" =>
            (Done(c) /\ calls[c].error = "ConnectError" /\ calls[c].handle = "none"
               /\ calls[c].queries = <<>>)

\* C3 witness: a probe of a missing sqlite file has failed and the path is
\* still empty.
C3_Witness ==
  \E c \in Calls :
    /\ calls[c].op = "testConnection" /\ calls[c].config.provider = "sqlite"
    /\ Done(c) /\ calls[c].foundFile = "missing" /\ calls[c].error = "ConnectError"
    /\ ~files[calls[c].config.filePath]

\* C14: a call whose descriptor names none of postgres, mysql, sqlite has
\* failed with the unsupported-engine error, has opened no connection and
\* has issued no query.
C14_UnsupportedEngineFails ==
  \A c \in Calls :
    (calls[c].op # "none" /\ calls[c].config.provider \notin {"postgres", "mysql", "sqlite"})
    => /\ Done(c) /\ calls[c].error = "Unsupported"
       /\ calls[c].handle = "none" /\ calls[c].mode = "none"
       /\ calls[c].queries = <<>> /\ calls[c].pending = 0

\* C14 witness: an introspection and a probe of an unsupported engine have
\* both failed.
C14_Witness ==
  \E c, d \in Calls :
    /\ IsIntrospection(c) /\ calls[d].op = "testConnection"
    /\ calls[c].config.provider = "oracle" /\ calls[d].config.provider = "oracle"
    /\ calls[c].error = "Unsupported" /\ calls[d].error = "Unsupported"

\* C15: an introspection whose catalog query failed after a successful
\* connect rejects with an IntrospectionError that carries the driver's
\* message, and goes on to release the connection without another query.
C15_QueryFailureIsIntrospectionError ==
  \A c \in Calls :
    (IsIntrospection(c) /\ calls[c].error = "QueryError") =>
      /\ Thrown(calls[c]).class = "IntrospectionError"
      /\ Thrown(calls[c]).message = "driver message"
      /\ calls[c].pc \in {"finally", "done"}

\* After a failed catalog query the call issues no query: neither the
\* failed one again nor a later one.
C15_NoQueryAfterFailure ==
  [][\A c \in Calls :
       calls[c].error = "QueryError" => calls'[c].queries = calls[c].queries]_vars

\* The failure of a query and the failure of connect reject with values of
\* one class.
C15_SameClassAsConnectFailure ==
  \A c, d \in Calls :
    (calls[c].error = "QueryError" /\ calls[d].error = "ConnectError") =>
      Thrown(calls[c]).class = Thrown(calls[d]).class

\* C17: every step of a call changes the state of that call only and no
\* file but the one its own descriptor names: the client, connection or
\* database handle of a call is opened, used and closed by that call alone.
C17_CallsShareNoState ==
  [][\A c \in Calls :
       calls'[c] # calls[c] =>
         /\ \A d \in Calls \ {c} : calls'[d] = calls[d]
         /\ \A p \in Paths : files'[p] # files[p] => calls[c].config.filePath = p]_vars

\* C17 witness: two introspections of different descriptors hold an open
\* connection at the same time, and one of them has since been closed
\* while the other is still open.
C17_Witness ==
  \E c, d \in Calls :
    /\ c # d /\ IsIntrospection(c) /\ IsIntrospection(d)
    /\ calls[c].config # calls[d].config
    /\ calls[c].config.provider = "sqlite" /\ calls[d].config.provider = "sqlite"
    /\ Done(c) /\ calls[c].handle = "closed" /\ calls[c].queries # <<>>
    /\ calls[d].handle = "open" /\ calls[d].queries # <<>>

\* C20: from the start of a call on, whatever its outcome, no step changes
\* a field of the connection descriptor the call was given.
C20_DescriptorNeverMutated ==
  [][\A c \in Calls : calls[c].op # "none" => calls'[c].config = calls[c].config]_vars

\* C20 witness: an introspection has failed after connecting and a probe
\* has succeeded, each with the descriptor of a supported engine.
C20_Witness ==
  \E c, d \in Calls :
    /\ IsIntrospection(c) /\ Done(c) /\ calls[c].error = "QueryError"
    /\ calls[d].op = "testConnection" /\ Done(d) /\ calls[d].error = "none"
    /\ calls[c].config \in Configs /\ calls[d].config \in Configs

(***************************************************************************)
(* Claims about foreign-key reconstruction and schema assembly             *)
(***************************************************************************)

Loaded == snapshot # NoSnapshot

Range(seq) == {seq[i] : i \in DOMAIN seq}

\* The reported rows that belong to a table of the snapshot.
ColumnRowsOf(t) ==
  LET Mine(r) == r.table_schema = t.schema /\ r.table_name = t.name
  IN SelectSeq(columnRows, Mine)

FkRowsOf(t) ==
  LET Mine(r) == r.table_schema = t.schema /\ r.table_name = t.name
  IN SelectSeq(fkRows, Mine)

FkIdent(r) == IF adapter.provider = "sqlite" THEN r.constraint_id ELSE r.constraint_name

\* fks is rows grouped by identifier: one descriptor per distinct
\* identifier, in first-seen order, each holding the column pairs of its rows
\* in row order.
GroupedInFirstSeenOrder(rows, fks) ==
  LET idents == {FkIdent(rows[i]) : i \in DOMAIN rows}
      First(x) == CHOOSE i \in DOMAIN rows :
                    FkIdent(rows[i]) = x /\ \A j \in 1..(i - 1) : FkIdent(rows[j]) # x
      Nth(n) == CHOOSE x \in idents : Cardinality({y \in idents : First(y) < First(x)}) = n - 1
      Pairs(x) == LET Same(r) == FkIdent(r) = x IN SelectSeq(rows, Same)
  IN /\ Len(fks) = Cardinality(idents)
     /\ \A n \in DOMAIN fks :
          LET pairs == Pairs(Nth(n)) IN
          /\ adapter.provider # "sqlite" => fks[n].name = Nth(n)
          /\ fks[n].columns = [k \in DOMAIN pairs |-> pairs[k].column_name]
          /\ fks[n].referencedColumns = [k \in DOMAIN pairs |-> pairs[k].foreign_column_name]

\* C5: the foreign keys of every table are its rows grouped by constraint
\* identifier, in first-seen order, with the column pairs in row order.
C5_GroupedByTableThenConstraint ==
  (Loaded /\ adapter.loader = "loadSchema") =>
    \A i \in DOMAIN snapshot.tables :
      GroupedInFirstSeenOrder(FkRowsOf(snapshot.tables[i]), snapshot.tables[i].foreignKeys)

\* C6: every foreign key of a returned snapshot has as many referenced
\* columns as columns, and at least one.
C6_ForeignKeyColumnsPaired ==
  (Loaded /\ adapter.loader = "loadSchema") =>
    \A i \in DOMAIN snapshot.tables :
      \A j \in DOMAIN snapshot.tables[i].foreignKeys :
        LET fk == snapshot.tables[i].foreignKeys[j] IN
        Len(fk.columns) = Len(fk.referencedColumns) /\ Len(fk.columns) >= 1

\* C6 witness: a returned snapshot holds a foreign key of two columns and
\* one of a single column.
C6_Witness ==
  /\ Loaded /\ adapter.loader = "loadSchema"
  /\ \E i \in DOMAIN snapshot.tables :
       \E j, k \in DOMAIN snapshot.tables[i].foreignKeys :
         /\ Len(snapshot.tables[i].foreignKeys[j].columns) = 2
         /\ Len(snapshot.tables[i].foreignKeys[k].columns) = 1

\* C7: the columns of every table are the column rows reported for that
\* table, in the order reported, and columns[i] and referencedColumns[i] of
\* every foreign key come from one reported row of the table.
C7_ColumnOrderPreserved ==
  Loaded =>
    \A i \in DOMAIN snapshot.tables :
      LET t == snapshot.tables[i]
          rows == ColumnRowsOf(t)
      IN /\ Len(t.columns) = Len(rows)
         /\ \A k \in DOMAIN t.columns :
              /\ t.columns[k].name = rows[k].column_name
              /\ t.columns[k].dataType = rows[k].data_type
              /\ t.columns[k].defaultValue = rows[k].column_default
         /\ adapter.loader = "loadSchema" =>
              \A j \in DOMAIN t.foreignKeys :
                LET fk == t.foreignKeys[j] IN
                \A k \in DOMAIN fk.columns :
                  /\ k \in DOMAIN fk.referencedColumns
                  /\ \E r \in Range(FkRowsOf(t)) :
                       r.column_name = fk.columns[k]
                         /\ r.foreign_column_name = fk.referencedColumns[k]

\* No two relations of the database share a lookup key.
NoKeyCollision ==
  \A i, j \in DOMAIN catalogTables :
    TableKey(adapter.provider, catalogTables[i].table_schema, catalogTables[i].table_name)
      = TableKey(adapter.provider, catalogTables[j].table_schema, catalogTables[j].table_name)
    => i = j

\* C5 and C7 hold of every database in which no two relations share a key.
C5_HoldsWithoutKeyCollision == NoKeyCollision => C5_GroupedByTableThenConstraint

C7_HoldsWithoutKeyCollision == NoKeyCollision => C7_ColumnOrderPreserved

\* C18: a column of a returned table is flagged as primary key exactly when
\* a reported primary-key row names the schema and name of that table and
\* the name of the column.
C18_PrimaryKeyFlagMatchesRows ==
  (Loaded /\ adapter.loader = "fetchSchema") =>
    \A i \in DOMAIN snapshot.tables :
      LET t == snapshot.tables[i] IN
      \A k \in DOMAIN t.columns :
        t.columns[k].isPrimaryKey <=>
          \E r \in Range(pkRows) :
            /\ r.table_schema = t.schema /\ r.table_name = t.name
            /\ r.column_name = t.columns[k].name

\* C18 holds of every database in which no two relations share a key.
C18_HoldsWithoutKeyCollision == NoKeyCollision => C18_PrimaryKeyFlagMatchesRows

(***************************************************************************)
(* Claims about the rendered document                                      *)
(***************************************************************************)

\* The positions of a line that hold a '|' with no backslash before it.
UnescapedPipes(line) ==
  {i \in DOMAIN line : line[i] = "|" /\ (i = 1 \/ line[i - 1] # "\\")}

\* The rows below the header and separator rows of a table.
IsBodyRow(line) == line # <<>> /\ Head(line) = "|"

BodyRows(lines) == SelectSeq(lines, IsBodyRow)

\* The cells a table row of each renderer has.
CellsPerRow == IF adapter.loader = "loadSchema" THEN 4 ELSE 5

RECURSIVE Ascending(_)
Ascending(S) ==
  IF S = {} THEN <<>>
  ELSE LET least == CHOOSE x \in S : \A y \in S : x <= y
       IN <<least>> \o Ascending(S \ {least})

\* The cells of a row: split at the unescaped '|', one space of padding
\* dropped on either side.
ParseRow(line) ==
  LET at == Ascending(UnescapedPipes(line))
  IN [k \in 1..(Len(at) - 1) |-> SubSeq(line, at[k] + 2, at[k + 1] - 2)]

\* Reverses the escape: every backslash followed by '|' becomes '|'.
RECURSIVE Unescape(_)
Unescape(s) ==
  IF s = <<>> THEN <<>>
  ELSE IF Len(s) >= 2 /\ s[1] = "\\" /\ s[2] = "|"
       THEN <<"|">> \o Unescape(SubSeq(s, 3, Len(s)))
       ELSE <<Head(s)>> \o Unescape(Tail(s))

\* The columns of the first table of the rendered snapshot.
RenderedColumns == IF snapshot.tables = <<>> THEN <<>> ELSE snapshot.tables[1].columns

\* C8: every table row of a rendered document holds no unescaped '|' other
\* than the separators of its cells.
C8_OnlySeparatorsUnescaped ==
  \A d \in Range(documents) :
    \A i \in DOMAIN d.lines :
      IsBodyRow(d.lines[i]) => Cardinality(UnescapedPipes(d.lines[i])) = CellsPerRow + 1

\* C8 holds of the documents buildMarkdownContext renders.
C8_HoldsOfBuildMarkdownContext ==
  adapter.loader = "fetchSchema" => C8_OnlySeparatorsUnescaped

\* The row of column k, split and unescaped, gives back the column's name.
NameRoundTrips(d, k) ==
  LET cells == ParseRow(BodyRows(d.lines)[k])
  IN Len(cells) >= 1 /\ Unescape(cells[1]) = RenderedColumns[k].name

\* The row of column k, split and unescaped, gives back the column's
\* default when it has one.
DefaultRoundTrips(d, k) ==
  LET cells == ParseRow(BodyRows(d.lines)[k])
  IN RenderedColumns[k].defaultValue # Null =>
       Len(cells) >= 4 /\ Unescape(cells[4]) = RenderedColumns[k].defaultValue

\* C9: splitting the rendered row of a column at the unescaped '|' and
\* reversing the escape recovers the column's name and its non-null default.
C9_EscapingRoundTrip ==
  \A d \in Range(documents) :
    \A k \in DOMAIN RenderedColumns :
      NameRoundTrips(d, k) /\ DefaultRoundTrips(d, k)

\* C9 holds of the documents buildMarkdownContext renders, and of the
\* documents renderMarkdown renders from names and types without '|'.
C9_HoldsOfBuildMarkdownContext ==
  adapter.loader = "fetchSchema" => C9_EscapingRoundTrip

C9_HoldsWithoutPipeInNameOrType ==
  (\A k \in DOMAIN RenderedColumns :
     /\ "|" \notin Range(RenderedColumns[k].name)
     /\ "|" \notin Range(RenderedColumns[k].dataType))
  => C9_EscapingRoundTrip

\* The header line that carries the time of generation.
GeneratedLine(t) == <<"- Generated: ", IsoString(t)>>

\* The lines at which two documents differ.
Differences(a, b) == {n \in DOMAIN a : n \notin DOMAIN b \/ a[n] # b[n]}

\* C10: two renderings of one snapshot at the same time are identical, and
\* two renderings at different times have the same number of lines and
\* differ in at most one line, the line of the generation time.
C10_OnlyGeneratedLineDiffers ==
  \A i, j \in DOMAIN documents :
    LET a == documents[i]
        b == documents[j]
    IN /\ Len(a.lines) = Len(b.lines)
       /\ a.now = b.now => a.lines = b.lines
       /\ Cardinality(Differences(a.lines, b.lines)) <= 1
       /\ \A n \in Differences(a.lines, b.lines) :
            a.lines[n] = GeneratedLine(a.now) /\ b.lines[n] = GeneratedLine(b.now)

\* C10 witness: renderMarkdown has rendered a snapshot with a table at two
\* different times, and a second time at one of them.
C10_Witness ==
  /\ adapter.loader = "loadSchema"
  /\ snapshot.tables # <<>>
  /\ \E i, j, k \in DOMAIN documents :
       /\ i # j /\ j # k /\ i # k
       /\ documents[i].now # documents[j].now
       /\ documents[j].now = documents[k].now
       /\ documents[i].lines # documents[j].lines

\* The lines that open the section of a table.
IsTableHeading(line) == line # <<>> /\ Head(line) \in {"## ", "### "}

\* The lines of the section of the i-th table of a document: from its
\* heading up to the next heading.
TableSection(lines, i) ==
  LET at == Ascending({n \in DOMAIN lines : IsTableHeading(lines[n])})
      to == IF i < Len(at) THEN at[i + 1] - 1 ELSE Len(lines)
  IN IF i \in DOMAIN at THEN SubSeq(lines, at[i], to) ELSE <<>>

NoColumnsMarker == <<"_No columns discovered._">>

\* The header row and the separator row of a column table.
ColumnTableHeaders ==
  { <<"| Column | Type | Nullable | Default |">>,
    <<"| ------ | ---- | -------- | ------- |">>,
    <<"| Column | Type | Nullable | Default | Primary Key |">>,
    <<"| --- | --- | --- | --- | --- |">> }

\* C11: the section of every table without columns holds the marker of no
\* columns discovered and neither row of a column table header.
C11_EmptyTableRendersMarker ==
  \A d \in Range(documents) :
    \A i \in DOMAIN snapshot.tables :
      snapshot.tables[i].columns = <<>> =>
        /\ NoColumnsMarker \in Range(TableSection(d.lines, i))
        /\ Range(TableSection(d.lines, i)) \cap ColumnTableHeaders = {}

\* C11 holds of the documents renderMarkdown renders.
C11_HoldsOfRenderMarkdown ==
  adapter.loader = "loadSchema" => C11_EmptyTableRendersMarker

\* The k-th cell of a row counted from its last cell (0: the last cell).
CellFromEnd(line, k) ==
  LET cells == ParseRow(line)
  IN IF Len(cells) > k THEN cells[Len(cells) - k] ELSE <<"missing">>

\* The foreign keys of the first table of the rendered snapshot that have a
\* row in the document: renderMarkdown renders no relations of a table
\* without columns, and buildMarkdownContext renders none at all.
RenderedForeignKeys ==
  IF adapter.loader # "loadSchema" \/ RenderedColumns = <<>> THEN <<>>
  ELSE snapshot.tables[1].foreignKeys

\* The row of the j-th foreign key of the first table.
RelationRow(d, j) == BodyRows(d.lines)[Len(RenderedColumns) + j]

\* C12: an absent column default, update rule or delete rule is rendered as
\* an empty cell, never as a word standing for the absent value.
C12_AbsentValuesRenderEmpty ==
  \A d \in Range(documents) :
    /\ \A k \in DOMAIN RenderedColumns :
         RenderedColumns[k].defaultValue = Null =>
           CellFromEnd(BodyRows(d.lines)[k], IF adapter.loader = "loadSchema" THEN 0 ELSE 1)
             = <<>>
    /\ \A j \in DOMAIN RenderedForeignKeys :
         /\ RenderedForeignKeys[j].onUpdate = Null => CellFromEnd(RelationRow(d, j), 1) = <<>>
         /\ RenderedForeignKeys[j].onDelete = Null => CellFromEnd(RelationRow(d, j), 0) = <<>>

\* C12 witness: renderMarkdown has rendered a table with a column without
\* default, a foreign key without update rule and one without delete rule.
C12_Witness ==
  /\ documents # <<>>
  /\ \E k \in DOMAIN RenderedColumns : RenderedColumns[k].defaultValue = Null
  /\ \E j \in DOMAIN RenderedForeignKeys : RenderedForeignKeys[j].onUpdate = Null
  /\ \E j \in DOMAIN RenderedForeignKeys : RenderedForeignKeys[j].onDelete = Null

\* The snapshot of the end-to-end scenario: one table public.users with the
\* columns (id int, not null) and (email text, nullable, no default), and
\* for renderMarkdown the foreign key author_id -> public.accounts(id) with
\* delete rule CASCADE.  The primary-key flag of id is a field of
\* ColumnSchema (database.ts) only; TableColumn has none.
IsScenario ==
  /\ Len(snapshot.tables) = 1
  /\ snapshot.tables[1].schema = sPublic /\ snapshot.tables[1].name = sUsers
  /\ Len(RenderedColumns) = 2
  /\ RenderedColumns[1].name = sId /\ RenderedColumns[1].dataType = tInt
  /\ RenderedColumns[2].name = sEmail /\ RenderedColumns[2].dataType = tText
  /\ RenderedColumns[2].defaultValue = Null
  /\ adapter.loader = "loadSchema" =>
       /\ ~RenderedColumns[1].isNullable /\ RenderedColumns[2].isNullable
       /\ Len(snapshot.tables[1].foreignKeys) = 1
       /\ snapshot.tables[1].foreignKeys[1].columns = <<sAuthorId>>
       /\ snapshot.tables[1].foreignKeys[1].onDelete = sCascade
  /\ adapter.loader = "fetchSchema" =>
       /\ ~RenderedColumns[1].nullable /\ RenderedColumns[2].nullable
       /\ RenderedColumns[1].isPrimaryKey /\ ~RenderedColumns[2].isPrimaryKey

WithoutSpaces(s) == LET NotSpace(ch) == ch # " " IN SelectSeq(s, NotSpace)

\* The document has a '## public.users' section.
HasUsersSection(d) ==
  \E n \in DOMAIN d.lines : d.lines[n] = <<"## ">> \o sPublic \o <<".">> \o sUsers

\* The column table lists id and email, in this order, with their types.
ListsBothColumns(d) ==
  /\ Len(BodyRows(d.lines)) >= 2
  /\ \A k \in 1..2 :
       LET cells == ParseRow(BodyRows(d.lines)[k])
       IN Len(cells) >= 2 /\ cells[1] = RenderedColumns[k].name
            /\ cells[2] = RenderedColumns[k].dataType

\* The row of id carries a primary-key mark that the row of email lacks.
MarksPrimaryKey(d) ==
  /\ Len(BodyRows(d.lines)) >= 2
  /\ LET id == ParseRow(BodyRows(d.lines)[1])
         email == ParseRow(BodyRows(d.lines)[2])
     IN Len(id) >= 5 /\ Len(email) >= 5 /\ id[5] # <<>> /\ email[5] = <<>>

\* A relations row reads author_id | public.accounts(id) | ... | CASCADE.
HasRelationRow(d) ==
  /\ Len(BodyRows(d.lines)) >= 3
  /\ LET cells == ParseRow(BodyRows(d.lines)[3])
     IN /\ Len(cells) = 4
        /\ cells[1] = sAuthorId
        /\ WithoutSpaces(cells[2]) = sPublic \o <<".">> \o sAccounts \o <<"(">> \o sId \o <<")">>
        /\ cells[4] = sCascade

\* C13: the document rendered from the scenario snapshot has a section
\* '## public.users', a column table listing both columns with id marked as
\* primary key, and a relations row author_id | public.accounts(id) | ... |
\* CASCADE.
C13_EndToEndScenario ==
  \A d \in Range(documents) :
    IsScenario =>
      HasUsersSection(d) /\ ListsBothColumns(d) /\ MarksPrimaryKey(d) /\ HasRelationRow(d)

\* Of the scenario, renderMarkdown renders everything but the primary-key
\* mark, and buildMarkdownContext renders the columns with the mark.
C13_RenderMarkdownLacksOnlyTheMark ==
  \A d \in Range(documents) :
    (IsScenario /\ adapter.loader = "loadSchema") =>
      HasUsersSection(d) /\ ListsBothColumns(d) /\ HasRelationRow(d) /\ ~MarksPrimaryKey(d)

C13_BuildMarkdownContextMarksPrimaryKey ==
  \A d \in Range(documents) :
    (IsScenario /\ adapter.loader = "fetchSchema") =>
      ListsBothColumns(d) /\ MarksPrimaryKey(d) /\ ~HasUsersSection(d) /\ ~HasRelationRow(d)

C13_ScenarioRendered == IsScenario /\ Len(documents) = 1

(***************************************************************************)
(* Claims about the generate-context command                               *)
(***************************************************************************)

\* Loading (connect or a catalog query) or rendering has failed.
LoadOrRenderFailed ==
  \/ calls[CommandCall].error # "none"
  \/ command.failure = "render message"

\* C16: the document file is written only after loading and rendering have
\* succeeded; when connecting, a catalog query or rendering fails, the file
\* is never written, and once the handler is done an error message with the
\* message of the failure has been shown.
C16_WriteOnlyAfterSuccess ==
  /\ outputFile # "absent" =>
       (command.loaded /\ command.rendered /\ calls[CommandCall].error = "none")
  /\ LoadOrRenderFailed =>
       /\ outputFile = "absent"
       /\ command.pc \notin {"mkdir", "write", "notify"}
       /\ command.pc = "done" =>
            \E i \in DOMAIN shown :
              /\ shown[i].severity = "error"
              /\ shown[i].text[2] = (IF command.failure = "render message"
                                     THEN "render message"
                                     ELSE Thrown(calls[CommandCall]).message)

\* C16 witness: one run has ended after a failed catalog query with the
\* error shown and no file; the file is written in another.
C16_Witness ==
  /\ command.pc = "done"
  /\ calls[CommandCall].error = "QueryError"
  /\ outputFile = "absent"
  /\ Len(shown) = 1

C16_WitnessWritten == command.pc = "done" /\ outputFile = "written"

(***************************************************************************)
(* Claims about the quoting of sqlite identifiers                          *)
(***************************************************************************)

Malformed == <<"malformed">>

\* The name sqlite reads from the characters after an opening double quote:
\* a doubled quote stands for one quote, a single quote closes the
\* identifier, a backslash is an ordinary character.  Characters after the
\* closing quote, or no closing quote, make the fragment malformed.
RECURSIVE ReadQuoted(_, _)
ReadQuoted(rest, name) ==
  IF rest = <<>> THEN Malformed
  ELSE IF Head(rest) # "\"" THEN ReadQuoted(Tail(rest), Append(name, Head(rest)))
  ELSE IF Len(rest) = 1 THEN name
  ELSE IF rest[2] = "\"" THEN ReadQuoted(SubSeq(rest, 3, Len(rest)), Append(name, "\""))
  ELSE Malformed

\* The identifier a fragment denotes to sqlite.
SqliteIdentifier(fragment) ==
  IF fragment = <<>> \/ Head(fragment) # "\"" THEN Malformed
  ELSE ReadQuoted(Tail(fragment), <<>>)

\* C19: the fragment of every PRAGMA issued for a table is a double quote,
\* the table name with every double quote doubled, and a double quote, and
\* denotes exactly that name.
C19_PragmaArgumentIsQuotedName ==
  \A i \in DOMAIN pragma.issued :
    /\ pragma.issued[i].argument = <<"\"">> \o DoubleQuotes(pragma.name) \o <<"\"">>
    /\ SqliteIdentifier(pragma.issued[i].argument) = pragma.name

\* C19 holds of loadSqliteSchema, and of fetchSqliteSchema for names
\* without double quote and backslash.
C19_HoldsOfLoadSqliteSchema ==
  pragma.loader = "loadSchema" => C19_PragmaArgumentIsQuotedName

C19_HoldsOfPlainNames ==
  (\A i \in DOMAIN pragma.name : pragma.name[i] \notin {"\"", "\\"})
  => C19_PragmaArgumentIsQuotedName

(***************************************************************************)
(* Claims about the .env import and export                                 *)
(***************************************************************************)

\* A text handed to the import directly, not produced by the export.
ImportedText == env.stage = "imported" /\ env.config = NoConfig

HasKey(content, key) == ParseEnv(content)[key] # Null

\* The engine the DB_TYPE line of a text names under the README's table.
ReadmeType(content) ==
  LET value == ParseEnv(content)["DB_TYPE"]
  IN IF value \in {<<"postgres">>, <<"mysql">>, <<"sqlite">>} THEN value[1] ELSE "none"

ReadmeRequired(type) ==
  IF type = "sqlite" THEN {"DB_TYPE", "DB_FILE"}
  ELSE {"DB_TYPE", "DB_HOST", "DB_PORT", "DB_USER", "DB_PASSWORD", "DB_NAME"}

\* C21: a text is accepted exactly when it has all the keys the README
\* requires of its engine: six for postgres/mysql (DB_SSL optional), DB_TYPE
\* and DB_FILE for sqlite; a text lacking any of them is rejected
C21_AcceptsExactlyTheRequiredKeys ==
  ImportedText =>
    (env.outcome.ok <=>
       /\ ReadmeType(env.content) # "none"
       /\ \A key \in ReadmeRequired(ReadmeType(env.content)) : HasKey(env.content, key))

\* C21 holds of the part of the claim the code enforces: a text with all the
\* required keys is accepted, and one without DB_HOST, DB_USER or DB_NAME
\* under either of their names is rejected.
C21_AcceptsCompleteText ==
  ImportedText =>
    /\ (/\ ReadmeType(env.content) # "none"
        /\ \A key \in ReadmeRequired(ReadmeType(env.content)) : HasKey(env.content, key))
         => env.outcome.ok
    /\ (/\ ReadmeType(env.content) \in {"postgres", "mysql"}
        /\ \E key \in {"DB_HOST", "DB_USER", "DB_NAME"} :
             ~HasKey(env.content, key) /\ ~HasKey(env.content, Alternative(key)))
         => ~env.outcome.ok

\* A config that was exported and whose text was imported again.
RoundTripped == env.stage = "imported" /\ env.config # NoConfig

\* C27: the import of the exported text of a populated config is accepted
\* and gives back the config, whatever characters its values contain
C27_ExportImportRoundTrip ==
  (RoundTripped /\ Populated(env.config)) =>
    (env.outcome.ok /\ env.outcome.config = env.config)

\* The value of the field the configs differ in.
VariedValue(config) ==
  IF config.provider = "sqlite" THEN config.filePath ELSE config.password

HasChar(value, chars) == \E i \in DOMAIN value : value[i] \in chars

\* C27 holds of the values without a quote character or a backslash.
C27_HoldsOfPlainValues ==
  (/\ RoundTripped
   /\ Populated(env.config)
   /\ ~HasChar(VariedValue(env.config), {"\"", "'", "\\"}))
    => (env.outcome.ok /\ env.outcome.config = env.config)

(***************************************************************************)
(* Claims about ConnectionManager and the settings panel                   *)
(***************************************************************************)

Stepped(t) == tasks'[t] # tasks[t]

\* C22: a step of an operation on one workspace folder leaves the
\* secret-storage entry and the cache entry of every other folder, and so
\* the result of getConnection on it, unchanged
C22_OtherFoldersUntouched ==
  [][\A t \in Tasks :
       Stepped(t) =>
         \A folder \in Folders \ {tasks'[t].folder} :
           /\ secrets'[GetSecretKey(folder)] = secrets[GetSecretKey(folder)]
           /\ cache'[GetSecretKey(folder)] = cache[GetSecretKey(folder)]]_vars

\* C22 witness: a save on folder A has completed while folder B holds, in
\* the secret storage and in the cache, a config of its own.
C22_Witness ==
  /\ \E t \in Tasks :
       /\ tasks[t].kind = "saveConnection"
       /\ tasks[t].folder = "A"
       /\ tasks[t].pc = "done"
  /\ cache[GetSecretKey("B")] = NetworkConfig("postgres", <<"secret">>)
  /\ secrets[GetSecretKey("B")] = StorePayload(cache[GetSecretKey("B")])
  /\ cache[GetSecretKey("A")] \notin {NoConfig, cache[GetSecretKey("B")]}

Quiescent == \A t \in Tasks : tasks[t].pc \in {"idle", "done"}

Coherent(key) == cache[key] # NoConfig => cache[key] = ParsePayload(secrets[key])

\* C26: once no operation is in flight, the cache entry of a folder, if
\* present, equals the config held in the secret storage, and is absent when
\* the secret storage holds none
C26_CacheCoherentWhenQuiescent ==
  Quiescent => \A key \in SecretKeys : Coherent(key)

\* C26 holds of the operations that ran one after the other.
C26_HoldsOfSequentialOperations ==
  (Quiescent /\ tasks["task2"].kind = "none") => \A key \in SecretKeys : Coherent(key)

\* C28: every step of an import whose text connectionFromEnv rejects ends
\* the import with an error and leaves the secret storage and the cache as
\* they were
C28_FailedImportChangesNothing ==
  [][\A t \in Tasks :
       (/\ Stepped(t)
        /\ tasks'[t].kind = "importFromEnv"
        /\ ~ConnectionFromEnv(tasks'[t].content).ok)
         => /\ tasks'[t].pc = "done"
            /\ tasks'[t].error # "none"
            /\ secrets' = secrets
            /\ cache' = cache]_vars

\* C28 witness: an import has thrown on a folder whose config is stored and
\* cached.
C28_Witness ==
  \E t \in Tasks :
    /\ tasks[t].kind = "importFromEnv"
    /\ tasks[t].pc = "done"
    /\ tasks[t].error # "none"
    /\ cache[GetSecretKey(tasks[t].folder)] # NoConfig
    /\ secrets[GetSecretKey(tasks[t].folder)]
         = StorePayload(cache[GetSecretKey(tasks[t].folder)])

\* The config the claim says the save message stores.
KeepsStoredPassword(submitted, stored) ==
  /\ submitted.provider # "sqlite"
  /\ submitted.password \in {<<>>, Null}
  /\ stored # NoConfig
  /\ stored.provider # "sqlite"

\* C30: when the handler of a save message is done, the stored config is the
\* submitted one, with the previously stored password when the submitted
\* config is non-sqlite without a password and the previously stored one is
\* non-sqlite; getConnection returns the stored config
C30_SaveStoresSubmittedConfig ==
  \A t \in Tasks :
    (tasks[t].kind = "settingsSave" /\ tasks[t].pc = "done") =>
      LET key      == GetSecretKey(tasks[t].folder)
          expected == IF KeepsStoredPassword(tasks[t].submitted, tasks[t].before)
                      THEN [tasks[t].submitted EXCEPT
                              !.password = tasks[t].before.password]
                      ELSE tasks[t].submitted
      IN /\ ParsePayload(secrets[key]) = expected
         /\ cache[key] = expected
         /\ tasks[t].result = expected

\* C30 witness: a save message without a password is done on a folder whose
\* stored config had one, and the stored config has it still.
C30_Witness ==
  \E t \in Tasks :
    /\ tasks[t].kind = "settingsSave"
    /\ tasks[t].pc = "done"
    /\ tasks[t].submitted = NetworkConfig("postgres", <<>>)
    /\ tasks[t].before = NetworkConfig("mysql", <<"other">>)
    /\ tasks[t].result = NetworkConfig("postgres", <<"other">>)

(***************************************************************************)
(* Claims about the foreign-key query                                      *)
(***************************************************************************)

\* The descriptors the grouping made for a declared constraint.
DescriptorsOf(constraint) ==
  SelectSeq(MapGetOr(fkJoin.fkMap,
                     TableKey("postgres", constraint.table_schema, constraint.table_name),
                     <<>>),
            LAMBDA fk : fk.name = constraint.constraint_name)

PairsAsDeclared(fk, constraint) ==
  /\ fk.columns = [i \in DOMAIN constraint.pairs |-> constraint.pairs[i].column]
  /\ fk.referencedColumns = [i \in DOMAIN constraint.pairs |-> constraint.pairs[i].referenced]

\* C23: a foreign key declared with N column pairs is returned as one
\* descriptor with exactly N columns and N referencedColumns, where
\* referencedColumns[i] is the column that columns[i] references
C23_OneDescriptorWithDeclaredPairs ==
  fkJoin.stage = "grouped" =>
    \A k \in DOMAIN fkJoin.declared :
      /\ Len(DescriptorsOf(fkJoin.declared[k])) = 1
      /\ PairsAsDeclared(DescriptorsOf(fkJoin.declared[k])[1], fkJoin.declared[k])

\* C23 holds of the foreign keys declared with one column pair, and every
\* foreign key is returned as one descriptor.
C23_HoldsOfSingleColumnKeys ==
  fkJoin.stage = "grouped" =>
    \A k \in DOMAIN fkJoin.declared :
      /\ Len(DescriptorsOf(fkJoin.declared[k])) = 1
      /\ Len(fkJoin.declared[k].pairs) = 1
           => PairsAsDeclared(DescriptorsOf(fkJoin.declared[k])[1], fkJoin.declared[k])

\* A foreign key of N column pairs comes back with N * N columns.
C23_PairsMultiplied ==
  fkJoin.stage = "grouped" =>
    \A k \in DOMAIN fkJoin.declared :
      LET n == Len(fkJoin.declared[k].pairs)
      IN /\ Len(DescriptorsOf(fkJoin.declared[k])[1].columns) = n * n
         /\ Len(DescriptorsOf(fkJoin.declared[k])[1].referencedColumns) = n * n

(***************************************************************************)
(* Claims about the queries that list the tables                           *)
(***************************************************************************)

Returned == {[schema |-> listing.tables[i].schema, name |-> listing.tables[i].name] :
               i \in DOMAIN listing.tables}

\* The relations that are tables or views and no system objects.
UserRelations ==
  IF listing.provider = "postgres"
  THEN {r \in listing.catalog : r.schema \notin SystemSchemas}
  ELSE {r \in listing.catalog :
          r.type \in {"table", "view"} /\ ~StartsWith(r.name, SqliteInternalPrefix)}

\* C25: the tables returned are exactly the catalog's tables and views that
\* are no system objects: outside information_schema and pg_catalog for the
\* networked engine, not named with the prefix sqlite_ for the file-based one
C25_ExactlyTheUserRelations ==
  listing.stage = "returned" =>
    Returned = {[schema |-> r.schema, name |-> r.name] : r \in UserRelations}

\* C25 holds of the networked engine, and the file-based engine returns no
\* system object and nothing outside the catalog.
C25_HoldsOfPostgres ==
  listing.stage = "returned" =>
    /\ listing.provider = "postgres"
         => Returned = {[schema |-> r.schema, name |-> r.name] : r \in UserRelations}
    /\ Returned \subseteq {[schema |-> r.schema, name |-> r.name] : r \in UserRelations}

(***************************************************************************)
(* Claims about the order of the steps of one introspection                *)
(***************************************************************************)

\* The step issues queries of call c.
Issues(c) == Len(calls'[c].queries) > Len(calls[c].queries)

\* The step closes the connection of call c.
Closes(c) == calls'[c].handle = "closed" /\ calls[c].handle # "closed"

OneAtATime(c) ==
  /\ Issues(c) =>
       /\ calls[c].handle = "open"
       /\ calls[c].pending = 0
       /\ Len(calls'[c].queries) = Len(calls[c].queries) + 1
  /\ Closes(c) => (calls[c].handle = "open" /\ calls'[c].pc = "done")
  /\ (calls'[c].pc = "done" /\ calls'[c].error # "ConnectError")
       => calls'[c].handle # "open"

\* C24: within one introspection every catalog query is issued on the open
\* connection, one at a time (none while another is pending), and the
\* connection that was opened is closed once, by the step that ends the call
C24_QueriesOneAtATimeOnOpenConnection ==
  [][\A c \in Calls : (IsIntrospection(c) /\ calls'[c].op = calls[c].op) => OneAtATime(c)]_vars

\* C24 holds of loadSchema, and of fetchSchema on mysql and sqlite.
C24_HoldsWithoutPromiseAll ==
  [][\A c \in Calls :
       (/\ IsIntrospection(c)
        /\ calls'[c].op = calls[c].op
        /\ ~IssuesConcurrently(calls[c].op, calls[c].config.provider))
         => OneAtATime(c)]_vars

(***************************************************************************)
(* Claims about the lookup keys of the networked adapters                  *)
(***************************************************************************)

PkRowsOf(t) ==
  LET Mine(r) == r.table_schema = t.schema /\ r.table_name = t.name
  IN SelectSeq(pkRows, Mine)

\* C29: in the networked adapters a table of the snapshot holds a column, a
\* foreign key or a primary-key flag only if a row reported it for the exact
\* schema and name of that table, dots in the names included
C29_AttachedOnlyToExactTable ==
  (Loaded /\ adapter.provider \in {"postgres", "mysql"}) =>
    \A i \in DOMAIN snapshot.tables :
      LET t == snapshot.tables[i] IN
      /\ Len(t.columns) <= Len(ColumnRowsOf(t))
      /\ \A k \in DOMAIN t.columns :
           \E r \in Range(ColumnRowsOf(t)) : r.column_name = t.columns[k].name
      /\ adapter.loader = "loadSchema" =>
           \A j \in DOMAIN t.foreignKeys :
             \E r \in Range(FkRowsOf(t)) : r.constraint_name = t.foreignKeys[j].name
      /\ adapter.loader = "fetchSchema" =>
           \A k \in DOMAIN t.columns :
             t.columns[k].isPrimaryKey =>
               \E r \in Range(PkRowsOf(t)) : r.column_name = t.columns[k].name

\* C29 holds of every database in which no two relations share a key, as is
\* every database of the engine whose key is the table name alone.
C29_HoldsWithoutKeyCollision == NoKeyCollision => C29_AttachedOnlyToExactTable

C29_HoldsOfMysql == adapter.provider = "mysql" => C29_AttachedOnlyToExactTable
====
